---- MODULE Spec2Model ----
(***************************************************************************)
(* Persistence and rank-tracking core of the support bot.                  *)
(*                                                                         *)
(*   src/src/common/database.py       Database (lock, TinyDB cache, sync)  *)
(*   src/src/common/rank_database.py  RankDatabase (user/migration tables) *)
(*   src/src/common/rank.py           RankSystem (award_xp, migrations)    *)
(*   src/src/reddit_bot/bot.py        Bot.migrate_reddit_ranks             *)
(*   src/src/discord_bot/cogs/rank.py RankCog.auto_migrate_mee6            *)
(*                                                                         *)
(* Part 1 models one Database object used by worker threads, with the      *)
(* lock, the CachingMiddleware cache and the JSON file spelled out.        *)
(* Part 2 models the two RankSystem objects of the process (one made by    *)
(* RankCog, one by the Reddit Bot), each with its own RankDatabase on the  *)
(* same ranks.json; there a with-block on a store is one step, because     *)
(* the store lock of Part 1 serialises the with-blocks of one store.       *)
(***************************************************************************)
EXTENDS Integers, Sequences, FiniteSets, TLC

(* ------------------------------ bounds --------------------------------- *)
NumWorkers == 4     \* worker threads sharing one Database
MaxUser == 2        \* user ids 1..MaxUser
MaxTime == 90       \* the clock stops advancing here
TickStep == 45      \* seconds between two observations of the clock
XpSteps == 1        \* steps between the sampled points of xp_range
MaxCalls == 2       \* award_xp calls one thread starts per process run
MaxPages == 2       \* non-empty pages the Mee6 API serves
MaxMee6Xp == 10     \* the xp a Mee6 player comes with
MaxItems == 1       \* stored submissions and comments, together
MaxPlayers == 1     \* players on one page of the Mee6 leaderboard
MaxRestarts == 1    \* restarts of the process

Workers == 1..NumWorkers

Users == 1..MaxUser

Free == 0

VARIABLES
    lock,        \* Database.lock: Free or the worker holding it
    tinydb,      \* CachingMiddleware.cache of Database.tinydb: [loaded, docs]
    json,        \* contents of <db_name>.json: [nonempty, docs]
    modified,    \* CachingMiddleware._cache_modified_count
    pc,          \* position of each worker in "with db as tinydb: insert"
    snap         \* the table a worker read at the start of Table.insert

storeVars == <<lock, tinydb, json, modified, pc, snap>>

VARIABLES
    cache,          \* per RankSystem: CachingMiddleware.cache of its RankDatabase
    file,           \* contents of ranks.json, shared by both RankDatabase objects
    stuck,          \* per RankSystem: its store lock was never released
    last_activity,  \* per RankSystem: RankSystem.last_activity (cooldown map)
    now,            \* int(time.time())
    apc,            \* position of each thread inside award_xp
    aloc,           \* locals of award_xp: user, community, current_time, user_data
    calls,          \* award_xp calls each thread has started so far
    lastCall,       \* history: the award_xp call that finished last
    awarded         \* history: per system and user, the awards returned so far

awardVars == <<cache, file, stuck, last_activity, now, apc, aloc, calls, lastCall, awarded>>

VARIABLES
    GIT_ENABLED,     \* database.GIT_ENABLED: "unset", "true" or "false"
    git_host,        \* the value the attribute has when the process starts
    MIGRATION_LOCK,  \* rank.MIGRATION_LOCK: "free", "mee6" or "reddit"
    mpc,             \* position of RankCog.auto_migrate_mee6
    mloc,            \* locals of _do_mee6_migration
    rpc,             \* position of Bot.migrate_reddit_ranks
    rloc,            \* locals of _do_reddit_migration
    ended,           \* history: the migration procedure that ended last
    completed,       \* history: set_migration_completed calls per migration
    restarts         \* restarts of the process so far

migVars == <<GIT_ENABLED, git_host, MIGRATION_LOCK, mpc, mloc, rpc, rloc, ended,
             completed, restarts>>

VARIABLES
    repo,            \* the git data repository: [index, head, remote], each the
                     \* documents of the JSON file as staged / committed / pushed
    DATA_REPO_LOCK,  \* database.DATA_REPO_LOCK: Free or the worker holding it
    lastFail         \* history: per worker, the git step of its sync() that failed

syncVars == <<repo, DATA_REPO_LOCK, lastFail>>

VARIABLES
    shelve,       \* the legacy shelve file: [exists, keys], keys a sequence of
                  \* [key, readable, records] in the order of shelve_db.keys()
    json_file,    \* the new-format file at json_path: [exists, tables]
    is_reddit_db, \* "reddit_bot" in self.db_name
    opc,          \* position of Database.__init__: closed, migrating, flush,
                  \* create, open
    migration_db, \* the temporary TinyDB of _migrate_from_shelve:
                  \* [tables, count, disk, raised, next]
    store,        \* what self.tinydb reads once the Database is open
    ohist         \* history: [migrations, opens, failed, inserted, legacy, json]:
                  \* migrations started, opens completed, and of the last
                  \* open: did its migration fail, the rows that migration had
                  \* inserted, and which files existed when it began

openVars == <<shelve, json_file, is_reddit_db, opc, migration_db, store, ohist>>

VARIABLES
    board_table,  \* the platform's user table the leaderboard is read from
    bq,           \* the arguments of the last get_leaderboard call
    page,         \* what RankDatabase.get_leaderboard returned
    ranked,       \* what RankSystem.get_leaderboard returned (rank, level added)
    pages,        \* the pages of a caller paging through the leaderboard, and
                  \* whether it has seen the empty page
    position,     \* the last get_user_rank_position call and its result
    bhist         \* history: awards made, and the user and community of an
                  \* award made into a community that had no record

boardVars == <<board_table, bq, page, ranked, pages, position, bhist>>

VARIABLES
    level,        \* the argument n of calculate_xp_for_level
    xp_for_level, \* calculate_xp_for_level(n)
    level_of_xp   \* calculate_level of that

levelVars == <<level, xp_for_level, level_of_xp>>

VARIABLES
    xp_in,        \* the argument xp of calculate_level
    level_out,    \* calculate_level(xp)
    level_before, \* calculate_level of the xp one lower (of 0 for xp = 0)
    xp_needed     \* calculate_xp_for_level of that level

xpVars == <<xp_in, level_out, level_before, xp_needed>>

VARIABLES
    ret           \* what the award_xp call of a caller returns, with the
                  \* values the call read on its way

retVars == <<ret>>

VARIABLES
    pcall         \* the last call that was given a platform: [n, op, platform,
                  \* outcome, changed]

platVars == <<pcall>>

VARIABLES
    handle,       \* which TinyDB object self.tinydb is (1 is the one __init__ made)
    slog          \* what the last sync() did: [syncs, flushes, closes, opens, before]

handleVars == <<handle, slog>>

VARIABLES
    use_git,      \* RankDatabase.use_git
    head,         \* the tables of ranks.json as last committed to the data repository
    repl,         \* commits made by sync(): [during, after] a migration body
    stop,         \* why _fetch_mee6_page returned None: "empty", "status", "error"
    mhist         \* the page requests and table writes of the Mee6 import

meeVars == <<use_git, head, repl, stop, mhist>>

VARIABLES
    stored        \* the submissions and comments tables of reddit_bot_database

redVars == <<stored>>

VARIABLES
    qcall         \* the last call on the RankDatabase, with the tables before it

queryVars == <<qcall>>

VARIABLES
    held,         \* the thread that holds each lock
    lpos          \* how far each thread is in the lock operations of its code path

lockVars == <<held, lpos>>

lateVars == <<meeVars, redVars, queryVars, lockVars>>

auxVars == <<syncVars, openVars, boardVars, levelVars, xpVars, retVars, platVars,
             handleVars, lateVars>>

(***************************************************************************)
(* Part 1: Database.__enter__ / __exit__ / sync and Table.insert           *)
(***************************************************************************)

\* CachingMiddleware.read: the file is read while the cache is None; an empty
\* file reads as None, so the cache stays unloaded until something is written
\* or found on disk.
StorageRead(c, f) ==
    IF c.loaded THEN c
    ELSE IF f.nonempty THEN [loaded |-> TRUE, docs |-> f.docs]
    ELSE c

\* CachingMiddleware.flush: the whole cache replaces the file when
\* _cache_modified_count > 0.
MutantFlush(c, f, m) == f

Flush(c, f, m) ==
    IF m > 0 THEN [nonempty |-> TRUE, docs |-> c.docs] ELSE f

\* threading.Lock.acquire() blocks until the lock is free.
MutantCanAcquire(l) == TRUE

CanAcquire(l) == l = Free

\* Database.__enter__
Enter(t) ==
    /\ pc[t] = "start"
    /\ CanAcquire(lock)
    /\ lock' = t
    /\ pc' = [pc EXCEPT ![t] = "in"]
    /\ UNCHANGED <<tinydb, json, modified, snap>>

\* Table.insert, first half (Table._update_table): tables = storage.read()
InsertRead(t) ==
    /\ pc[t] = "in"
    /\ tinydb' = StorageRead(tinydb, json)
    /\ snap' = [snap EXCEPT ![t] = StorageRead(tinydb, json).docs]
    /\ pc' = [pc EXCEPT ![t] = "read"]
    /\ UNCHANGED <<lock, json, modified>>

\* Table.insert, second half: the table read earlier plus the new document
\* is written back through CachingMiddleware.write.
InsertWrite(t) ==
    /\ pc[t] = "read"
    /\ tinydb' = [loaded |-> TRUE,
                  docs |-> Append(snap[t], [doc_id |-> Len(snap[t]) + 1, thread |-> t])]
    /\ modified' = modified + 1
    /\ pc' = [pc EXCEPT ![t] = "wrote"]
    /\ UNCHANGED <<lock, json, snap>>

\* Database.__exit__: sync() flushes, then the lock is released.
Exit(t) ==
    /\ pc[t] = "wrote"
    /\ json' = Flush(tinydb, json, modified)
    /\ modified' = 0
    /\ lock' = Free
    /\ pc' = [pc EXCEPT ![t] = "done"]
    /\ UNCHANGED <<tinydb, snap>>

\* Database.__exit__ when storage.flush() raises (the file cannot be
\* written): sync() propagates and lock.release() on the next line is skipped.
ExitFlushRaises(t) ==
    /\ pc[t] = "wrote"
    /\ modified > 0
    /\ pc' = [pc EXCEPT ![t] = "raised"]
    /\ UNCHANGED <<lock, tinydb, json, modified, snap>>

InitStore ==
    /\ lock = Free
    /\ tinydb = [loaded |-> FALSE, docs |-> <<>>]
    /\ json = [nonempty |-> FALSE, docs |-> <<>>]
    /\ modified = 0
    /\ pc = [t \in Workers |-> "start"]
    /\ snap = [t \in Workers |-> <<>>]


Inside(t) == pc[t] \in {"in", "read", "wrote", "raised"}

\* C1: at most one worker is between __enter__ and __exit__ of the Database,
\* and once every worker has left its with-block each worker's document is
\* in the cache and in the file.
C1_Serialized ==
    /\ Cardinality({t \in Workers : Inside(t)}) <= 1
    /\ (\A t \in Workers : pc[t] = "done") =>
          \A t \in Workers :
              /\ \E i \in 1..Len(tinydb.docs) : tinydb.docs[i].thread = t
              /\ \E i \in 1..Len(json.docs) : json.docs[i].thread = t

C1_Witness ==
    /\ \A t \in Workers : pc[t] = "done"
    /\ Len(json.docs) = NumWorkers

\* C11: once a worker's with-block has ended, by return or by an exception
\* of the flush in __exit__, the worker no longer holds the store lock.
C11_LockFreed ==
    \A t \in Workers : pc[t] \in {"done", "raised"} => lock # t

\* what a new Database opened on the same file reads
Reopened == StorageRead([loaded |-> FALSE, docs |-> <<>>], json).docs

\* C12: whenever no worker is inside a with-block (and none was thrown out
\* of one by a failing flush), the file holds what the cache holds, and a
\* new Database on the file reads one document per completed with-block.
C12_OnDisk ==
    (\A t \in Workers : ~Inside(t)) =>
        /\ Reopened = tinydb.docs
        /\ Len(Reopened) = Cardinality({t \in Workers : pc[t] = "done"})
        /\ \A t \in Workers :
              pc[t] = "done" => \E i \in 1..Len(Reopened) : Reopened[i].thread = t

\* two with-blocks have completed, nobody is inside, one worker has not begun
C12_Witness ==
    /\ \A t \in Workers : ~Inside(t)
    /\ Cardinality({t \in Workers : pc[t] = "done"}) = 2
    /\ \E t \in Workers : pc[t] = "start"

(* ----------------- sync() of a Database with use_git ------------------- *)

GitSteps == {"status", "add", "status_again", "commit", "push"}

\* sync(), lines 241-271: "except Exception" around every git step, and
\* "except git.exc.GitCommandError" around the push
MutantCaught(step) == step = "push"

Caught(step) == TRUE

\* repo.git.status('--porcelain') is non-empty: the file differs from what
\* is committed, or something is staged
Dirty(f, r) == f.docs # r.head \/ r.index # r.head

\* sync(), lines 235-236: the flush, before any git step
SyncFlush(t) ==
    /\ pc[t] = "wrote"
    /\ json' = Flush(tinydb, json, modified)
    /\ modified' = 0
    /\ pc' = [pc EXCEPT ![t] = "repo_lock"]
    /\ UNCHANGED <<lock, tinydb, snap, repo, DATA_REPO_LOCK, lastFail>>

\* sync(), line 239: with DATA_REPO_LOCK
SyncLock(t) ==
    /\ pc[t] = "repo_lock"
    /\ DATA_REPO_LOCK = Free
    /\ DATA_REPO_LOCK' = t
    /\ pc' = [pc EXCEPT ![t] = "status"]
    /\ UNCHANGED <<lock, tinydb, json, modified, snap, repo, lastFail>>

\* a git step raises: the handler that catches it prints, the with-block of
\* DATA_REPO_LOCK ends, and sync() returns (or the exception leaves sync())
GitFails(t, step) ==
    /\ lastFail' = [lastFail EXCEPT ![t] = step]
    /\ DATA_REPO_LOCK' = Free
    /\ pc' = [pc EXCEPT ![t] = IF Caught(step) THEN "release" ELSE "raised"]
    /\ UNCHANGED <<lock, tinydb, json, modified, snap, repo>>

\* line 243-246: status; nothing to do when the tree is clean
GitStatus(t, ok) ==
    /\ pc[t] = "status"
    /\ IF ok
       THEN /\ pc' = [pc EXCEPT ![t] = IF Dirty(json, repo) THEN "add" ELSE "release"]
            /\ DATA_REPO_LOCK' = IF Dirty(json, repo) THEN DATA_REPO_LOCK ELSE Free
            /\ UNCHANGED <<lock, tinydb, json, modified, snap, repo, lastFail>>
       ELSE GitFails(t, "status")

\* lines 248-252: git add of every json file
GitAdd(t, ok) ==
    /\ pc[t] = "add"
    /\ IF ok
       THEN /\ repo' = [repo EXCEPT !.index = json.docs]
            /\ pc' = [pc EXCEPT ![t] = "status_again"]
            /\ UNCHANGED <<lock, tinydb, json, modified, snap, DATA_REPO_LOCK, lastFail>>
       ELSE GitFails(t, "add")

\* line 255: status again, is there anything to commit
GitStatusAgain(t, ok) ==
    /\ pc[t] = "status_again"
    /\ IF ok
       THEN /\ pc' = [pc EXCEPT ![t] = IF Dirty(json, repo) THEN "commit" ELSE "release"]
            /\ DATA_REPO_LOCK' = IF Dirty(json, repo) THEN DATA_REPO_LOCK ELSE Free
            /\ UNCHANGED <<lock, tinydb, json, modified, snap, repo, lastFail>>
       ELSE GitFails(t, "status_again")

\* lines 257-259: commit
GitCommit(t, ok) ==
    /\ pc[t] = "commit"
    /\ IF ok
       THEN /\ repo' = [repo EXCEPT !.head = repo.index]
            /\ pc' = [pc EXCEPT ![t] = "push"]
            /\ UNCHANGED <<lock, tinydb, json, modified, snap, DATA_REPO_LOCK, lastFail>>
       ELSE GitFails(t, "commit")

\* lines 262-267: push
GitPush(t, ok) ==
    /\ pc[t] = "push"
    /\ IF ok
       THEN /\ repo' = [repo EXCEPT !.remote = repo.head]
            /\ DATA_REPO_LOCK' = Free
            /\ pc' = [pc EXCEPT ![t] = "release"]
            /\ UNCHANGED <<lock, tinydb, json, modified, snap, lastFail>>
       ELSE GitFails(t, "push")

\* __exit__, line 231: sync() has returned, the store lock is released
SyncRelease(t) ==
    /\ pc[t] = "release"
    /\ lock' = Free
    /\ pc' = [pc EXCEPT ![t] = "done"]
    /\ UNCHANGED <<tinydb, json, modified, snap, repo, DATA_REPO_LOCK, lastFail>>

InitSync ==
    /\ repo = [index |-> <<>>, head |-> <<>>, remote |-> <<>>]
    /\ DATA_REPO_LOCK = Free
    /\ lastFail = [t \in Workers |-> ""]

HasDocOf(docs, t) == \E i \in 1..Len(docs) : docs[i].thread = t

\* C13: when a git step of a worker's sync() has failed, the exception does
\* not leave sync(): the worker's document is already in the JSON file, and
\* once its with-block has ended the worker holds neither the store lock nor
\* DATA_REPO_LOCK.
C13_GitFailureSwallowed ==
    \A t \in Workers :
        lastFail[t] # "" =>
            /\ pc[t] \in {"release", "done"}
            /\ HasDocOf(json.docs, t)
            /\ DATA_REPO_LOCK # t
            /\ pc[t] = "done" => lock # t

\* one worker's commit failed, and a later worker's sync() pushed both
\* documents
C13_Witness ==
    \E t, u \in Workers :
        /\ pc[t] = "done" /\ lastFail[t] = "commit"
        /\ pc[u] = "done" /\ lastFail[u] = ""
        /\ HasDocOf(repo.remote, t) /\ HasDocOf(repo.remote, u)

(***************************************************************************)
(* Part 1, continued: Database.__init__ and the migration from shelve      *)
(***************************************************************************)

MaxRecords == 2

MaxOpens == 2

\* CachingMiddleware.WRITE_CACHE_SIZE, the storage class of line 154
WRITE_CACHE_SIZE == 1000

LegacyKeys == {"comments", "submissions"}

NoTables == [k \in LegacyKeys |-> <<>>]

\* reddit ids of the records stored under a legacy key
FirstId(key) == IF key = "comments" THEN 0 ELSE MaxRecords

\* the dicts stored under one legacy key: the n-th has id FirstId(key) + n,
\* has a 'body' or not, and can be dumped as JSON or not
RecordLists(key) ==
    UNION {[1..n -> [body : BOOLEAN, serialisable : BOOLEAN]] : n \in 0..MaxRecords}

RecordsOf(key, l) ==
    [n \in 1..Len(l) |->
        [id |-> FirstId(key) + n, body |-> l[n].body, serialisable |-> l[n].serialisable]]

KeyLists ==
    {<<>>} \cup {<<k>> : k \in LegacyKeys}
           \cup {<<k1, k2>> : <<k1, k2>> \in {kk \in LegacyKeys \X LegacyKeys : kk[1] # kk[2]}}

\* _check_for_migration, lines 142-145
MutantNeedsMigration(shelve_exists, json_exists) == shelve_exists

NeedsMigration(shelve_exists, json_exists) == shelve_exists /\ ~json_exists

\* lines 174-214: the row built from one legacy record
SimplifiedRecord(record) ==
    [reddit_id |-> record.id,
     fields |-> IF is_reddit_db
                THEN IF record.body THEN "comment" ELSE "submission"
                ELSE "original",
     serialisable |-> record.serialisable]

\* json.dumps of the tables succeeds
Dumps(tables) ==
    \A k \in LegacyKeys : \A i \in 1..Len(tables[k]) : tables[k][i].serialisable

\* CachingMiddleware.flush through JSONStorage.write: json.dumps first, then
\* the file is rewritten
FlushMigration(m) ==
    IF m.count = 0 THEN m
    ELSE IF Dumps(m.tables) THEN [m EXCEPT !.disk = m.tables, !.count = 0]
    ELSE [m EXCEPT !.raised = TRUE]

\* line 169 and 210/214: migration_db.table(key).insert(row); the cache is
\* written out every WRITE_CACHE_SIZE writes
TableInsert(m, key, row) ==
    LET w == [m EXCEPT !.tables[key] = Append(@, row), !.count = @ + 1]
    IN  IF w.count >= WRITE_CACHE_SIZE THEN FlushMigration(w) ELSE w

\* lines 172-214: the loop over value.items()
RECURSIVE InsertRecords(_, _, _)
InsertRecords(m, key, records) ==
    IF records = <<>> \/ m.raised THEN m
    ELSE InsertRecords(TableInsert(m, key, SimplifiedRecord(Head(records))),
                       key, Tail(records))

NoMigration == [tables |-> NoTables, count |-> 0, disk |-> NoTables,
                raised |-> FALSE, next |-> 0]

NoStore == [open |-> FALSE, tables |-> NoTables]

\* rows a failed migration had inserted before it failed
Inserted(m) == [k \in LegacyKeys |-> m.tables[k]]

\* lines 221-223: except Exception, print; __init__ goes on to line 133
MigrationFailed(m) ==
    /\ ohist' = [ohist EXCEPT !.failed = TRUE, !.inserted = Inserted(m)]
    /\ json_file' = [json_file EXCEPT !.tables = m.disk]
    /\ migration_db' = NoMigration
    /\ opc' = "create"

\* __init__ line 130, _check_for_migration; line 152: the migration TinyDB
\* creates the file at json_path and reads it through its cache
OpenCheck ==
    /\ opc = "closed"
    /\ ohist.opens < MaxOpens
    /\ IF NeedsMigration(shelve.exists, json_file.exists)
       THEN /\ opc' = "migrating"
            /\ json_file' = [json_file EXCEPT !.exists = TRUE]
            /\ migration_db' = [tables |-> json_file.tables, count |-> 0,
                                disk |-> json_file.tables, raised |-> FALSE, next |-> 1]
            /\ ohist' = [ohist EXCEPT !.migrations = @ + 1, !.failed = FALSE,
                                      !.inserted = NoTables,
                                      !.legacy = shelve.exists,
                                      !.json = json_file.exists]
       ELSE /\ opc' = "create"
            /\ ohist' = [ohist EXCEPT !.failed = FALSE, !.inserted = NoTables,
                                      !.legacy = shelve.exists,
                                      !.json = json_file.exists]
            /\ UNCHANGED <<json_file, migration_db>>
    /\ UNCHANGED <<shelve, is_reddit_db, store>>

\* lines 164-214: one key of the legacy file with all of its records
MigrateKey ==
    /\ opc = "migrating"
    /\ migration_db.next <= Len(shelve.keys)
    /\ LET e == shelve.keys[migration_db.next]
           m == InsertRecords(migration_db, e.key, e.records)
       IN  IF ~e.readable THEN MigrationFailed(migration_db)
           ELSE IF m.raised THEN MigrationFailed(m)
           ELSE /\ migration_db' = [m EXCEPT !.next = @ + 1]
                /\ json_file' = [json_file EXCEPT !.tables = m.disk]
                /\ UNCHANGED <<opc, ohist>>
    /\ UNCHANGED <<shelve, is_reddit_db, store>>

\* lines 216-220: flush and close after the last key
MigrateFlush ==
    /\ opc = "migrating"
    /\ migration_db.next > Len(shelve.keys)
    /\ LET m == FlushMigration(migration_db)
       IN  IF m.raised THEN MigrationFailed(m)
           ELSE /\ json_file' = [json_file EXCEPT !.tables = m.disk]
                /\ migration_db' = NoMigration
                /\ opc' = "create"
                /\ UNCHANGED ohist
    /\ UNCHANGED <<shelve, is_reddit_db, store>>

\* __init__ lines 133-137: self.tinydb on json_path
OpenCreate ==
    /\ opc = "create"
    /\ json_file' = [json_file EXCEPT !.exists = TRUE]
    /\ store' = [open |-> TRUE, tables |-> json_file.tables]
    /\ ohist' = [ohist EXCEPT !.opens = @ + 1]
    /\ opc' = "open"
    /\ UNCHANGED <<shelve, is_reddit_db, migration_db>>

\* the process ends; the files stay
Close ==
    /\ opc = "open"
    /\ opc' = "closed"
    /\ store' = NoStore
    /\ UNCHANGED <<shelve, json_file, is_reddit_db, migration_db, ohist>>

NoHistory == [migrations |-> 0, opens |-> 0, failed |-> FALSE, inserted |-> NoTables,
              legacy |-> FALSE, json |-> FALSE]

InitOpenIdle ==
    /\ shelve = [exists |-> FALSE, keys |-> <<>>]
    /\ json_file = [exists |-> FALSE, tables |-> NoTables]
    /\ is_reddit_db = TRUE
    /\ opc = "closed"
    /\ migration_db = NoMigration
    /\ store = NoStore
    /\ ohist = NoHistory

\* a data directory with or without a legacy file and with or without the
\* new-format file
InitOpen ==
    /\ \E ks \in KeyLists, ex \in BOOLEAN :
          \E e \in [1..Len(ks) -> BOOLEAN \X UNION {RecordLists(k) : k \in LegacyKeys}] :
             shelve = [exists |-> ex,
                       keys |-> IF ex
                                THEN [i \in 1..Len(ks) |->
                                        [key |-> ks[i], readable |-> e[i][1],
                                         records |-> RecordsOf(ks[i], e[i][2])]]
                                ELSE <<>>]
    /\ json_file \in [exists : BOOLEAN, tables : {NoTables}]
    /\ is_reddit_db \in BOOLEAN
    /\ opc = "closed"
    /\ migration_db = NoMigration
    /\ store = NoStore
    /\ ohist = NoHistory

RowsWithId(tables, id) ==
    {<<k, i>> \in UNION {{<<kk, ii>> : ii \in 1..Len(tables[kk])} : kk \in LegacyKeys} :
        tables[k][i].reddit_id = id}

\* C14: when the migration run by an open failed partway, the open still
\* completes and the opened store holds every row the migration had inserted
\* before it failed.
C14_PartialKept ==
    (opc = "open" /\ ohist.failed) =>
        /\ store.open
        /\ \A k \in LegacyKeys : \A i \in 1..Len(ohist.inserted[k]) :
              RowsWithId(store.tables, ohist.inserted[k][i].reddit_id) # {}

\* C15: an open runs the migration exactly when the legacy file existed and
\* the new-format file did not; no migration starts after an open has
\* completed; no file or store ever holds two rows of one legacy record; and
\* the legacy file of a migrated directory is still there.
C15_MigratesOnce ==
    /\ opc = "migrating" => ohist.legacy /\ ~ohist.json /\ ohist.opens = 0
    /\ (opc \in {"create", "open"} /\ ohist.legacy /\ ~ohist.json) =>
           ohist.migrations = 1 /\ ohist.opens <= 1
    /\ ohist.migrations <= 1
    /\ ohist.opens >= 2 => ohist.json
    /\ \A id \in 1..(2 * MaxRecords) :
           /\ Cardinality(RowsWithId(json_file.tables, id)) <= 1
           /\ Cardinality(RowsWithId(store.tables, id)) <= 1
    /\ ohist.migrations > 0 => shelve.exists

\* the second open of a migrated directory: no second migration, and the
\* rows of both keys are there once
C15_Witness ==
    /\ opc = "open" /\ ohist.opens = 2 /\ ohist.migrations = 1
    /\ \A k \in LegacyKeys : Len(store.tables[k]) = MaxRecords

\* some legacy key holds both comment-shaped and submission-shaped records
Mixed ==
    \E n \in 1..Len(shelve.keys) :
        \E i, j \in 1..Len(shelve.keys[n].records) :
            shelve.keys[n].records[i].body /\ ~shelve.keys[n].records[j].body

\* C16: after the migration of a Reddit legacy store with mixed keys has
\* succeeded, every legacy record has exactly one row, in "comments" when it
\* has a body and in "submissions" when it has none.
C16_Classified ==
    (opc = "open" /\ is_reddit_db /\ Mixed /\ ohist.migrations = 1 /\ ohist.opens = 1
        /\ ~ohist.failed) =>
        \A n \in 1..Len(shelve.keys) : \A i \in 1..Len(shelve.keys[n].records) :
            LET r == shelve.keys[n].records[i]
            IN  \E j \in 1..Len(store.tables[IF r.body THEN "comments" ELSE "submissions"]) :
                    /\ RowsWithId(store.tables, r.id) =
                           {<<IF r.body THEN "comments" ELSE "submissions", j>>}
                    /\ store.tables[IF r.body THEN "comments" ELSE "submissions"][j].fields =
                           (IF r.body THEN "comment" ELSE "submission")

(***************************************************************************)
(* Part 2: RankDatabase and RankSystem                                     *)
(***************************************************************************)

\* The two RankSystem objects of the process: RankCog.__init__ makes one for
\* the Discord side, the Reddit Bot.__init__ makes the other; each
\* RankSystem.__init__ runs self.db = RankDatabase().
Systems == {"discord", "reddit"}

\* ids of the communities: bot.guilds for Discord, subreddit.id for Reddit
GuildId == 1

SubredditId == "t5_sub"

CommunityOf(platform) == IF platform = "discord" THEN GuildId ELSE SubredditId

\* RankSystem.__init__ defaults; the Reddit Bot passes xp_range=(150, 250)
cooldown == 60

XpRange(sys) == IF sys = "discord" THEN <<15, 25>> ELSE <<150, 250>>

\* random.randint(lo, hi): a value of lo..hi, sampled at XpSteps + 1 points
RandInt(lo, hi) == {lo + k * ((hi - lo) \div XpSteps) : k \in 0..XpSteps}

\* a field a document does not have
NoInt == -1

NoStr == ""

Fields == {"user_id", "community_id", "xp", "message_count", "last_activity",
           "username", "submission_count", "comment_count",
           "mee6_import_date", "reddit_import_date"}

AbsentOf(f) == IF f = "username" THEN NoStr ELSE NoInt

Has(doc, f) == IF f \in {"user_id", "community_id"} THEN TRUE ELSE doc[f] # AbsentOf(f)

\* user.name
NameOf(u) == "user" \o ToString(u)

\* the key/value pairs of a Document, as passed back to update_user_data
Present(doc) == [f \in {g \in Fields : Has(doc, g)} |-> doc[f]]

\* Table.insert(data): a new document holding the fields of data
NewDoc(data) == [f \in Fields |-> IF f \in DOMAIN data THEN data[f] ELSE AbsentOf(f)]

\* Table.update(data, doc_ids=[...]): dict.update, fields not in data stay
Merge(doc, data) == [f \in Fields |-> IF f \in DOMAIN data THEN data[f] ELSE doc[f]]

\* data['user_id'] = user_id; data['community_id'] = community_id
MutantForceKey(data, c, u) == data

ForceKey(data, c, u) ==
    [f \in DOMAIN data \cup {"user_id", "community_id"} |->
        IF f = "user_id" THEN u ELSE IF f = "community_id" THEN c ELSE data[f]]

EmptyTables == [discord_users |-> <<>>, reddit_users |-> <<>>, migrations |-> <<>>]

TableName(platform) == IF platform = "discord" THEN "discord_users" ELSE "reddit_users"

\* "for item in table.all(): if item.get('user_id') == user_id and
\* item.get('community_id') == community_id: ... break": index of the first
\* match (the doc_id), 0 when there is none
FindUser(tbl, c, u) ==
    LET hits == {i \in 1..Len(tbl) : tbl[i].user_id = u /\ tbl[i].community_id = c}
    IN IF hits = {} THEN 0 ELSE CHOOSE i \in hits : \A j \in hits : i <= j

\* RankDatabase.get_user_data(create_if_not_exists=True): the tables after
\* the call (a zero record is inserted when no record matches)
GetUserDataTables(tables, platform, c, u) ==
    LET tn == TableName(platform)
    IN IF FindUser(tables[tn], c, u) # 0 THEN tables
       ELSE [tables EXCEPT ![tn] = Append(@, NewDoc(
                [user_id |-> u, community_id |-> c, xp |-> 0,
                 message_count |-> 0, last_activity |-> 0]))]

\* RankDatabase.update_user_data: the tables after the upsert
UpdateUserDataTables(tables, platform, c, u, data) ==
    LET tn == TableName(platform)
        existing == FindUser(tables[tn], c, u)
        forced == ForceKey(data, c, u)
    IN IF existing # 0
       THEN [tables EXCEPT ![tn][existing] = Merge(@, forced)]
       ELSE [tables EXCEPT ![tn] = Append(@, NewDoc(forced))]

\* the tables a with-block of system sys sees: its cache, loaded from the
\* file on the first read that finds the file non-empty
View(sys) == StorageRead(cache[sys], file).docs

\* One "with self.db as db:" of system sys, leaving `tables` behind; `wrote`
\* tells whether the body called insert/update; `ok` is FALSE when the flush
\* in __exit__ raises, and then the store lock stays held for good.
WithDb(sys, tables, wrote, ok) ==
    /\ ~stuck[sys]
    /\ wrote \/ ok
    /\ cache' = [cache EXCEPT ![sys] =
                    IF wrote THEN [loaded |-> TRUE, docs |-> tables]
                    ELSE StorageRead(cache[sys], file)]
    /\ file' = IF wrote /\ ok THEN Flush([loaded |-> TRUE, docs |-> tables], file, 1)
               ELSE file
    /\ stuck' = [stuck EXCEPT ![sys] = ~ok]

(* ----------------------------- migrations ------------------------------ *)

\* BATCH_SIZE in _do_mee6_migration
BATCH_SIZE == 100

\* migration_key = f"{platform}:{community_id}:{source_id}"
MigrationKey(platform, c, src) ==
    IF platform = "discord"
    THEN platform \o ":" \o ToString(c) \o ":" \o ToString(src)
    ELSE platform \o ":" \o c \o ":" \o src

\* source_id: guild.id for Mee6, 'reddit_bot_database' for Reddit
SourceOf(platform) == IF platform = "discord" THEN GuildId ELSE "reddit_bot_database"

\* RankDatabase.get_migration_status: TRUE when a record with the key exists
MutantHasMigration(tables, platform, c, src) == tables.migrations # <<>>

HasMigration(tables, platform, c, src) ==
    \E i \in 1..Len(tables.migrations) :
        tables.migrations[i].migration_key = MigrationKey(platform, c, src)

\* RankDatabase.set_migration_completed: insert, never update
SetMigrationCompletedTables(tables, platform, c, src, stats) ==
    [tables EXCEPT !.migrations = Append(@,
        [migration_key |-> MigrationKey(platform, c, src), platform |-> platform,
         community_id |-> c, source_id |-> src, source_type |-> stats.source_type, timestamp |-> stats.date, stats |-> stats])]

\* existing_users_map[...] = item for every item of table.all(): the last
\* document of the key wins; the doc_id of it, 0 when there is none
LastUser(tbl, c, u) ==
    LET hits == {i \in 1..Len(tbl) : tbl[i].user_id = u /\ tbl[i].community_id = c}
    IN IF hits = {} THEN 0 ELSE CHOOSE i \in hits : \A j \in hits : i >= j

\* "if existing and existing.get('xp', 0) > 0: updated_users += 1"
CountsAsUpdated(snapshot, c, u) ==
    LET e == LastUser(snapshot, c, u)
    IN e # 0 /\ Has(snapshot[e], "xp") /\ snapshot[e].xp > 0

\* the update-or-insert loop of _process_mee6_batch: `snapshot` is the table
\* read before the loop, `tbl` the table as written so far
RECURSIVE ProcessMee6Batch(_, _, _, _)
ProcessMee6Batch(tbl, snapshot, guild, batch) ==
    IF batch = <<>> THEN tbl
    ELSE LET up == Head(batch)
             existing == LastUser(snapshot, guild, up.user_id)
             data == [user_id |-> up.user_id, community_id |-> guild, xp |-> up.xp,
                      message_count |-> up.message_count, username |-> up.username,
                      mee6_import_date |-> up.mee6_import_date]
         IN ProcessMee6Batch(
                IF existing # 0 THEN [tbl EXCEPT ![existing] = Merge(@, data)]
                ELSE Append(tbl, NewDoc(data)),
                snapshot, guild, Tail(batch))

\* updated_users of one batch; new_users is the rest of the batch
RECURSIVE UpdatedInBatch(_, _, _)
UpdatedInBatch(snapshot, guild, batch) ==
    IF batch = <<>> THEN 0
    ELSE (IF CountsAsUpdated(snapshot, guild, Head(batch).user_id) THEN 1 ELSE 0)
         + UpdatedInBatch(snapshot, guild, Tail(batch))

\* batch_updates[i:i+BATCH_SIZE]
MutantSlice(seq, i, n) ==
    SubSeq(seq, i + 1, IF i + n < Len(seq) THEN i + n ELSE Len(seq) - 1)

Slice(seq, i, n) ==
    SubSeq(seq, i + 1, IF i + n < Len(seq) THEN i + n ELSE Len(seq))

\* the players one page of the Mee6 leaderboard can hold
Players == [id : Users, xp : {MaxMee6Xp}, message_count : {1}]

\* the user_update built from one player (lines 834-843)
UserUpdate(player) ==
    [user_id |-> player.id, xp |-> player.xp, message_count |-> player.message_count,
     username |-> NameOf(player.id), mee6_import_date |-> now]

NoMee == [original |-> "unset", page |-> 0, batch_updates |-> <<>>, i |-> 0,
          total_users |-> 0, new_users |-> 0, updated_users |-> 0,
          stats |-> [source_type |-> "", date |-> 0]]

\* threading.Lock.acquire() on MIGRATION_LOCK
MutantMigrationLockFree(l) == TRUE

MigrationLockFree(l) == l = "free"

\* "finally: MIGRATION_LOCK.release()" and the exit of "with MIGRATION_LOCK:"
MutantReleased(l, raised) == IF raised THEN l ELSE "free"

Released(l, raised) == "free"

\* the synchronous stretches of the Discord event loop: award_xp runs to its
\* end before the loop resumes a coroutine, and auto_migrate_mee6 yields only
\* at its awaits (the executor's acquire and the page fetches)
LoopFree == apc["dloop"] = "idle"

MeeAtAwait == mpc \in {"check", "acquire", "fetch", "done"}

\* the thread runs award_xp: the Reddit threads start after Bot.__init__,
\* which ends with migrate_reddit_ranks
ThreadRuns(t) == IF t = "dloop" THEN MeeAtAwait ELSE rpc = "done"

(* ------------------------------ award_xp ------------------------------- *)

\* the threads that call award_xp: the Discord event loop (xp_award_task) and
\* the Reddit comment and submission threads (process_comment,
\* process_submission through award_reddit_xp)
AwardThreads == {"dloop", "comment", "submission"}

SysOf(t) == IF t = "dloop" THEN "discord" ELSE "reddit"

\* user_key = f"{platform}:{community_id}:{user_id}"
UserKey(platform, c, u) ==
    platform \o ":" \o (IF platform = "discord" THEN ToString(c) ELSE c) \o ":" \o ToString(u)

\* "if user_key in self.last_activity: if current_time -
\* self.last_activity[user_key] < self.cooldown: return None"
MutantOnCooldown(la, key, t) == FALSE

OnCooldown(la, key, t) == key \in DOMAIN la /\ t - la[key] < cooldown

\* self.last_activity[user_key] = current_time
DictSet(d, k, v) == [x \in DOMAIN d \cup {k} |-> IF x = k THEN v ELSE d[x]]

NoLocals == [u |-> 0, time |-> 0, gain |-> 0, data |-> NewDoc([xp |-> 0])]

NoCall == [sys |-> "", user |-> 0, time |-> 0, result |-> "", prev |-> NoInt,
           raisedBefore |-> FALSE]

\* history of the results award_xp gave: result is "ok" (a dict was returned),
\* "none" (None was returned) or "raised"; prev is the time of the last call
\* for the same key that returned a dict before this one finished; spaced
\* tells that the calls that returned a dict were at least cooldown apart
LogAward(t, u, time, result, gain) ==
    LET h == awarded[SysOf(t)][u]
    IN /\ lastCall' = [sys |-> SysOf(t), user |-> u, time |-> time, result |-> result,
                       prev |-> h.last, raisedBefore |-> h.raised]
       /\ awarded' = [awarded EXCEPT ![SysOf(t)][u] =
              IF result = "ok"
              THEN [@ EXCEPT !.sum = @ + gain, !.count = @ + 1, !.last = time,
                             !.spaced = @ /\ (h.last = NoInt \/ time - h.last >= cooldown
                                                             \/ h.last - time >= cooldown)]
              ELSE IF result = "raised" THEN [@ EXCEPT !.raised = TRUE]
              ELSE @]

\* "return None  # Still on cooldown": the map after a rejected call
MutantCooldownKept(la, key, t) == DictSet(la, key, t)

CooldownKept(la, key, t) == la

\* award_xp, lines 234-245: key, current_time and the cooldown check
AwardBegin(t, u) ==
    LET sys == SysOf(t)
        key == UserKey(sys, CommunityOf(sys), u)
    IN /\ apc[t] = "idle"
       /\ ThreadRuns(t)
       /\ calls[t] < MaxCalls
       /\ calls' = [calls EXCEPT ![t] = @ + 1]
       /\ IF OnCooldown(last_activity[sys], key, now)
          THEN /\ LogAward(t, u, now, "none", 0)
               /\ UNCHANGED <<apc, aloc>>
          ELSE /\ apc' = [apc EXCEPT ![t] = "get"]
               /\ aloc' = [aloc EXCEPT ![t] = [NoLocals EXCEPT !.u = u, !.time = now]]
               /\ UNCHANGED <<lastCall, awarded>>
       /\ last_activity' = [last_activity EXCEPT ![sys] =
              IF OnCooldown(@, key, now) THEN CooldownKept(@, key, now) ELSE @]
       /\ UNCHANGED <<cache, file, stuck, now>>

\* get_rank_data -> RankDatabase.get_user_data(create_if_not_exists=True)
AwardGetUser(t, ok) ==
    LET sys == SysOf(t)
        c == CommunityOf(sys)
        u == aloc[t].u
        tn == TableName(sys)
        after == GetUserDataTables(View(sys), sys, c, u)
        doc == after[tn][FindUser(after[tn], c, u)]
    IN /\ apc[t] = "get"
       /\ WithDb(sys, after, after # View(sys), ok)
       /\ IF ok
          THEN /\ apc' = [apc EXCEPT ![t] = IF Has(doc, "username") THEN "mark" ELSE "name"]
               /\ aloc' = [aloc EXCEPT ![t].data = doc]
               /\ UNCHANGED <<lastCall, awarded>>
          ELSE /\ apc' = [apc EXCEPT ![t] = "idle"]
               /\ aloc' = [aloc EXCEPT ![t] = NoLocals]
               /\ LogAward(t, u, aloc[t].time, "raised", 0)
       /\ UNCHANGED <<last_activity, now, calls>>

\* get_rank_data, lines 177-184: user_data['username'] = user.name, then
\* update_user_data with the whole document read before
AwardSetName(t, ok) ==
    LET sys == SysOf(t)
        c == CommunityOf(sys)
        u == aloc[t].u
        named == [aloc[t].data EXCEPT !.username = NameOf(u)]
    IN /\ apc[t] = "name"
       /\ WithDb(sys, UpdateUserDataTables(View(sys), sys, c, u, Present(named)), TRUE, ok)
       /\ IF ok
          THEN /\ apc' = [apc EXCEPT ![t] = "mark"]
               /\ aloc' = [aloc EXCEPT ![t].data = named]
               /\ UNCHANGED <<lastCall, awarded>>
          ELSE /\ apc' = [apc EXCEPT ![t] = "idle"]
               /\ aloc' = [aloc EXCEPT ![t] = NoLocals]
               /\ LogAward(t, u, aloc[t].time, "raised", 0)
       /\ UNCHANGED <<last_activity, now, calls>>

\* award_xp, lines 253-262: the draw, the local update of user_data and the
\* cooldown tracker
AwardMark(t, g) ==
    LET sys == SysOf(t)
        d == aloc[t].data
    IN /\ apc[t] = "mark"
       /\ aloc' = [aloc EXCEPT ![t].gain = g,
                               ![t].data = [d EXCEPT !.xp = d.xp + g,
                                   !.message_count =
                                       (IF Has(d, "message_count") THEN d.message_count ELSE 0) + 1,
                                   !.last_activity = aloc[t].time]]
       /\ last_activity' = [last_activity EXCEPT ![sys] =
              DictSet(@, UserKey(sys, CommunityOf(sys), aloc[t].u), aloc[t].time)]
       /\ apc' = [apc EXCEPT ![t] = "update"]
       /\ UNCHANGED <<cache, file, stuck, now, calls, lastCall, awarded>>

\* award_xp, lines 265-281: update_rank_data -> update_user_data, then the result
AwardUpdate(t, ok) ==
    LET sys == SysOf(t)
        c == CommunityOf(sys)
        u == aloc[t].u
    IN /\ apc[t] = "update"
       /\ WithDb(sys, UpdateUserDataTables(View(sys), sys, c, u, Present(aloc[t].data)), TRUE, ok)
       /\ LogAward(t, u, aloc[t].time, IF ok THEN "ok" ELSE "raised", aloc[t].gain)
       /\ apc' = [apc EXCEPT ![t] = "idle"]
       /\ aloc' = [aloc EXCEPT ![t] = NoLocals]
       /\ UNCHANGED <<last_activity, now, calls>>

\* time passes
Tick ==
    /\ now + TickStep <= MaxTime
    /\ now' = now + TickStep
    /\ UNCHANGED <<cache, file, stuck, last_activity, apc, aloc, calls, lastCall, awarded>>

(* -------------------- RankCog.auto_migrate_mee6 ------------------------ *)

awardState == <<last_activity, now, apc, aloc, calls, lastCall, awarded>>

\* auto_migrate_mee6, lines 508-521: the status check for the guild, then
\* the call of migrate_from_mee6 up to its first await
MeeCheck ==
    /\ mpc = "check"
    /\ LoopFree
    /\ WithDb("discord", View("discord"), FALSE, TRUE)
    /\ mpc' = IF HasMigration(View("discord"), "discord", GuildId, SourceOf("discord"))
              THEN "done" ELSE "acquire"
    /\ UNCHANGED <<GIT_ENABLED, git_host, MIGRATION_LOCK, mloc, rpc, rloc, ended,
                   completed, restarts>>
    /\ UNCHANGED awardState

\* migrate_from_mee6, line 698: MIGRATION_LOCK.acquire in the executor
MeeAcquire ==
    /\ mpc = "acquire"
    /\ MigrationLockFree(MIGRATION_LOCK)
    /\ MIGRATION_LOCK' = "mee6"
    /\ mpc' = "start"
    /\ UNCHANGED <<GIT_ENABLED, git_host, mloc, rpc, rloc, ended, completed, restarts>>
    /\ UNCHANGED <<cache, file, stuck>>
    /\ UNCHANGED awardState

\* _do_mee6_migration, lines 817-824; reading an attribute the module does
\* not have raises AttributeError, which leaves through "finally" and is
\* caught by auto_migrate_mee6
MeeStart ==
    /\ mpc = "start"
    /\ LoopFree
    /\ IF GIT_ENABLED = "unset"
       THEN /\ MIGRATION_LOCK' = Released(MIGRATION_LOCK, TRUE)
            /\ mpc' = "done"
            /\ ended' = [kind |-> "mee6", before |-> GIT_ENABLED, after |-> GIT_ENABLED,
                         raised |-> TRUE]
            /\ UNCHANGED <<GIT_ENABLED, mloc>>
       ELSE /\ mloc' = [NoMee EXCEPT !.original = GIT_ENABLED]
            /\ GIT_ENABLED' = "false"
            /\ mpc' = "fetch"
            /\ UNCHANGED <<MIGRATION_LOCK, ended>>
    /\ UNCHANGED <<git_host, rpc, rloc, completed, restarts>>
    /\ UNCHANGED <<cache, file, stuck>>
    /\ UNCHANGED awardState

\* one turn of the page loop, lines 827-846, with a page of players
MeeFetchPage(players) ==
    /\ mpc = "fetch"
    /\ LoopFree
    /\ mloc.page < MaxPages
    /\ mloc' = [mloc EXCEPT
                   !.page = @ + 1,
                   !.total_users = @ + Len(players),
                   !.batch_updates = @ \o [k \in 1..Len(players) |-> UserUpdate(players[k])]]
    /\ UNCHANGED <<GIT_ENABLED, git_host, MIGRATION_LOCK, mpc, rpc, rloc, ended,
                   completed, restarts>>
    /\ UNCHANGED <<cache, file, stuck>>
    /\ UNCHANGED awardState

\* _fetch_mee6_page returns None (empty page, status other than 200, or an
\* error it caught): the page loop ends
MeeFetchNone ==
    /\ mpc = "fetch"
    /\ LoopFree
    /\ mpc' = "apply"
    /\ UNCHANGED <<GIT_ENABLED, git_host, MIGRATION_LOCK, mloc, rpc, rloc, ended,
                   completed, restarts>>
    /\ UNCHANGED <<cache, file, stuck>>
    /\ UNCHANGED awardState

\* a player without 'id' or 'xp': int(player['id']) / player['xp'] raises
\* KeyError inside the page loop, which no handler of _do_mee6_migration covers
MeeFetchMalformed ==
    /\ mpc = "fetch"
    /\ LoopFree
    /\ mloc.page < MaxPages
    /\ MIGRATION_LOCK' = Released(MIGRATION_LOCK, TRUE)
    /\ mpc' = "done"
    /\ ended' = [kind |-> "mee6", before |-> mloc.original, after |-> GIT_ENABLED,
                 raised |-> TRUE]
    /\ mloc' = NoMee
    /\ UNCHANGED <<GIT_ENABLED, git_host, rpc, rloc, completed, restarts>>
    /\ UNCHANGED <<cache, file, stuck>>
    /\ UNCHANGED awardState

\* one turn of the batch loop, lines 852-857: _process_mee6_batch
MeeBatch(ok) ==
    LET batch == Slice(mloc.batch_updates, mloc.i, BATCH_SIZE)
        tables == View("discord")
        snapshot == tables.discord_users
        upd == UpdatedInBatch(snapshot, GuildId, batch)
    IN /\ mpc = "apply"
       /\ mloc.i < Len(mloc.batch_updates)
       /\ WithDb("discord",
                 [tables EXCEPT !.discord_users = ProcessMee6Batch(@, snapshot, GuildId, batch)],
                 TRUE, ok)
       /\ IF ok
          THEN /\ mloc' = [mloc EXCEPT !.i = @ + BATCH_SIZE,
                                       !.updated_users = @ + upd,
                                       !.new_users = @ + Len(batch) - upd]
               /\ UNCHANGED <<MIGRATION_LOCK, mpc, ended>>
          ELSE /\ MIGRATION_LOCK' = Released(MIGRATION_LOCK, TRUE)
               /\ mpc' = "done"
               /\ ended' = [kind |-> "mee6", before |-> mloc.original,
                            after |-> GIT_ENABLED, raised |-> TRUE]
               /\ mloc' = NoMee
       /\ UNCHANGED <<GIT_ENABLED, git_host, rpc, rloc, completed, restarts>>
       /\ UNCHANGED awardState

\* lines 859-873: the flag is restored, self.db.sync() finds nothing to
\* flush (every with-block flushed on exit), the stats are returned and
\* "finally" releases the lock
MeeFinish ==
    /\ mpc = "apply"
    /\ mloc.i >= Len(mloc.batch_updates)
    /\ GIT_ENABLED' = mloc.original
    /\ MIGRATION_LOCK' = Released(MIGRATION_LOCK, FALSE)
    /\ mloc' = [NoMee EXCEPT !.stats =
                   [total_processed |-> mloc.total_users, new_users |-> mloc.new_users,
                    updated_users |-> mloc.updated_users, guild_id |-> GuildId,
                    source_type |-> "mee6", date |-> now]]
    /\ ended' = [kind |-> "mee6", before |-> mloc.original, after |-> mloc.original,
                 raised |-> FALSE]
    /\ mpc' = "record"
    /\ UNCHANGED <<git_host, rpc, rloc, completed, restarts>>
    /\ UNCHANGED <<cache, file, stuck>>
    /\ UNCHANGED awardState

\* auto_migrate_mee6, lines 524-529: set_migration_completed
MeeRecord(ok) ==
    /\ mpc = "record"
    /\ WithDb("discord",
              SetMigrationCompletedTables(View("discord"), "discord", GuildId,
                                          SourceOf("discord"), mloc.stats),
              TRUE, ok)
    /\ completed' = IF ok THEN [completed EXCEPT !.mee6 = @ + 1] ELSE completed
    /\ mpc' = "done"
    /\ mloc' = NoMee
    /\ UNCHANGED <<GIT_ENABLED, git_host, MIGRATION_LOCK, rpc, rloc, ended, restarts>>
    /\ UNCHANGED awardState

(* --------------------- Bot.migrate_reddit_ranks ------------------------ *)

\* the rows of the submissions / comments table of reddit_bot_database, with
\* what the lookup of the author gives: author 0 is a missing or "[deleted]"
\* author; lookup is what reddit_bot.fetch_user does for the others; gain is
\* the random.randint(150, 250) drawn when the author is found
RedditItems(type) ==
    {it \in [type : {type}, author : {0} \cup Users,
             lookup : {"found", "none", "raises"}, gain : {0} \cup RandInt(150, 250)] :
        /\ (it.author = 0 => it.lookup = "none")
        /\ (it.gain # 0 <=> (it.author # 0 /\ it.lookup = "found"))}

ItemLists(type) == UNION {[1..n -> RedditItems(type)] : n \in 0..MaxItems}

\* _process_reddit_item on user_xp_map (a dict, kept in insertion order)
MutantProcessRedditItem(map, it) ==
    LET hits == {k \in 1..Len(map) : map[k].id = it.author}
        m2 == IF hits = {} THEN Append(map, [id |-> it.author, xp |-> 0, submissions |-> 0,
                                             comments |-> 0, name |-> NameOf(it.author)])
              ELSE map
        k == CHOOSE x \in 1..Len(m2) : m2[x].id = it.author
    IN IF it.author = 0 \/ it.lookup # "found" THEN map
       ELSE [m2 EXCEPT ![k].xp = @ + it.gain,
                       ![k].submissions = @ + (IF it.type = "submission" THEN 1 ELSE 0)]

ProcessRedditItem(map, it) ==
    LET hits == {k \in 1..Len(map) : map[k].id = it.author}
        m2 == IF hits = {} THEN Append(map, [id |-> it.author, xp |-> 0, submissions |-> 0,
                                             comments |-> 0, name |-> NameOf(it.author)])
              ELSE map
        k == CHOOSE x \in 1..Len(m2) : m2[x].id = it.author
    IN IF it.author = 0 \/ it.lookup # "found" THEN map
       ELSE [m2 EXCEPT ![k].xp = @ + it.gain,
                       ![k].submissions = @ + (IF it.type = "submission" THEN 1 ELSE 0),
                       ![k].comments = @ + (IF it.type = "submission" THEN 0 ELSE 1)]

RECURSIVE ProcessRedditItems(_, _)
ProcessRedditItems(map, items) ==
    IF items = <<>> THEN map
    ELSE ProcessRedditItems(ProcessRedditItem(map, Head(items)), Tail(items))

\* (success, skipped) of _process_reddit_item, lines 490-517
MutantItemResult(it) ==
    IF it.author = 0 THEN <<FALSE, TRUE>>
    ELSE IF it.lookup = "raises" THEN <<FALSE, FALSE>>
    ELSE IF it.lookup = "none" THEN <<FALSE, TRUE>>
    ELSE <<TRUE, FALSE>>

ItemResult(it) ==
    IF it.author = 0 THEN <<FALSE, TRUE>>
    ELSE IF it.lookup = "raises" THEN <<FALSE, TRUE>>
    ELSE IF it.lookup = "none" THEN <<FALSE, TRUE>>
    ELSE <<TRUE, FALSE>>

\* "elif skipped: skipped_submissions += 1", over the items of a table
RECURSIVE Skipped(_)
Skipped(items) ==
    IF items = <<>> THEN 0
    ELSE (IF ~ItemResult(Head(items))[1] /\ ItemResult(Head(items))[2] THEN 1 ELSE 0)
         + Skipped(Tail(items))

\* items counted as processed: (success, skipped) = (True, False)
RECURSIVE Processed(_)
Processed(items) ==
    IF items = <<>> THEN 0
    ELSE (IF Head(items).author # 0 /\ Head(items).lookup = "found" THEN 1 ELSE 0)
         + Processed(Tail(items))

\* the update-or-insert loop of _update_reddit_rank_database
RECURSIVE UpdateRedditRanks(_, _, _, _)
UpdateRedditRanks(tbl, snapshot, c, map) ==
    IF map = <<>> THEN tbl
    ELSE LET st == Head(map)
             existing == LastUser(snapshot, c, st.id)
             data == [user_id |-> st.id, community_id |-> c, xp |-> st.xp,
                      message_count |-> st.submissions + st.comments,
                      submission_count |-> st.submissions, comment_count |-> st.comments,
                      username |-> st.name, reddit_import_date |-> now]
         IN UpdateRedditRanks(
                IF existing # 0 THEN [tbl EXCEPT ![existing] = Merge(@, data)]
                ELSE Append(tbl, NewDoc(data)),
                snapshot, c, Tail(map))

RECURSIVE UpdatedInMap(_, _, _)
UpdatedInMap(snapshot, c, map) ==
    IF map = <<>> THEN 0
    ELSE (IF CountsAsUpdated(snapshot, c, Head(map).id) THEN 1 ELSE 0)
         + UpdatedInMap(snapshot, c, Tail(map))

NoRed == [original |-> "unset", user_xp_map |-> <<>>,
          total_submissions |-> 0, total_comments |-> 0,
          skipped_submissions |-> 0, skipped_comments |-> 0,
          stats |-> [source_type |-> "", date |-> 0]]

\* migrate_reddit_ranks, lines 258-277: the status check
RedCheck ==
    /\ rpc = "check"
    /\ WithDb("reddit", View("reddit"), FALSE, TRUE)
    /\ rpc' = IF HasMigration(View("reddit"), "reddit", SubredditId, SourceOf("reddit"))
              THEN "done" ELSE "acquire"
    /\ UNCHANGED <<GIT_ENABLED, git_host, MIGRATION_LOCK, mpc, mloc, rloc, ended,
                   completed, restarts>>
    /\ UNCHANGED awardState

\* migrate_from_reddit_database, line 461: with MIGRATION_LOCK
RedAcquire ==
    /\ rpc = "acquire"
    /\ MigrationLockFree(MIGRATION_LOCK)
    /\ MIGRATION_LOCK' = "reddit"
    /\ rpc' = "start"
    /\ UNCHANGED <<GIT_ENABLED, git_host, mpc, mloc, rloc, ended, completed, restarts>>
    /\ UNCHANGED <<cache, file, stuck>>
    /\ UNCHANGED awardState

\* _do_reddit_migration, lines 601-608
RedStart ==
    /\ rpc = "start"
    /\ IF GIT_ENABLED = "unset"
       THEN /\ MIGRATION_LOCK' = Released(MIGRATION_LOCK, TRUE)
            /\ rpc' = "done"
            /\ ended' = [kind |-> "reddit", before |-> GIT_ENABLED, after |-> GIT_ENABLED,
                         raised |-> TRUE]
            /\ UNCHANGED <<GIT_ENABLED, rloc>>
       ELSE /\ rloc' = [NoRed EXCEPT !.original = GIT_ENABLED]
            /\ GIT_ENABLED' = "false"
            /\ rpc' = "scan"
            /\ UNCHANGED <<MIGRATION_LOCK, ended>>
    /\ UNCHANGED <<git_host, mpc, mloc, completed, restarts>>
    /\ UNCHANGED <<cache, file, stuck>>
    /\ UNCHANGED awardState

\* lines 613-648: every stored submission, then every stored comment, inside
\* one with-block of reddit_bot_database
RedScan(subs, coms) ==
    /\ rpc = "scan"
    /\ rloc' = [rloc EXCEPT
                   !.user_xp_map = ProcessRedditItems(<<>>, subs \o coms),
                   !.total_submissions = Processed(subs),
                   !.skipped_submissions = Skipped(subs),
                   !.total_comments = Processed(coms),
                   !.skipped_comments = Skipped(coms)]
    /\ rpc' = "update"
    /\ UNCHANGED <<GIT_ENABLED, git_host, MIGRATION_LOCK, mpc, mloc, ended, completed, restarts>>
    /\ UNCHANGED <<cache, file, stuck>>
    /\ UNCHANGED awardState

\* lines 651-676: _update_reddit_rank_database, then either the handler
\* (restore the flag, re-raise) or the restore, the sync and the stats; the
\* with-block of migrate_from_reddit_database releases the lock both ways
RedUpdate(ok) ==
    LET tables == View("reddit")
        snapshot == tables.reddit_users
        map == rloc.user_xp_map
        upd == UpdatedInMap(snapshot, SubredditId, map)
    IN /\ rpc = "update"
       /\ WithDb("reddit",
                 [tables EXCEPT !.reddit_users = UpdateRedditRanks(@, snapshot, SubredditId, map)],
                 map # <<>>, ok)
       /\ GIT_ENABLED' = rloc.original
       /\ MIGRATION_LOCK' = Released(MIGRATION_LOCK, ~ok)
       /\ ended' = [kind |-> "reddit", before |-> rloc.original, after |-> rloc.original,
                    raised |-> ~ok]
       /\ rloc' = IF ~ok THEN NoRed ELSE [NoRed EXCEPT !.stats =
                      [total_users |-> Len(map), new_users |-> Len(map) - upd,
                       updated_users |-> upd,
                       total_submissions |-> rloc.total_submissions,
                       total_comments |-> rloc.total_comments,
                       skipped_submissions |-> rloc.skipped_submissions,
                       skipped_comments |-> rloc.skipped_comments,
                       community_id |-> SubredditId,
                       source_type |-> "reddit_database", date |-> now]]
       /\ rpc' = IF ok THEN "record" ELSE "done"
       /\ UNCHANGED <<git_host, mpc, mloc, completed, restarts>>
       /\ UNCHANGED awardState

\* migrate_reddit_ranks, lines 280-285: set_migration_completed
RedRecord(ok) ==
    /\ rpc = "record"
    /\ WithDb("reddit",
              SetMigrationCompletedTables(View("reddit"), "reddit", SubredditId,
                                          SourceOf("reddit"), rloc.stats),
              TRUE, ok)
    /\ completed' = IF ok THEN [completed EXCEPT !.reddit = @ + 1] ELSE completed
    /\ rpc' = "done"
    /\ rloc' = NoRed
    /\ UNCHANGED <<GIT_ENABLED, git_host, MIGRATION_LOCK, mpc, mloc, ended, restarts>>
    /\ UNCHANGED awardState

(* ------------------------- start of the process ------------------------- *)

NoEnd == [kind |-> "", before |-> "unset", after |-> "unset", raised |-> FALSE]

\* __main__.main builds the Discord bot (RankCog -> RankSystem ->
\* RankDatabase) and the Reddit Bot (RankSystem -> RankDatabase) anew; what
\* the last run left in memory is gone, ranks.json is what it was
Restart ==
    /\ restarts < MaxRestarts
    /\ restarts' = restarts + 1
    /\ cache' = [s \in Systems |-> [loaded |-> FALSE, docs |-> EmptyTables]]
    /\ stuck' = [s \in Systems |-> FALSE]
    /\ last_activity' = [s \in Systems |-> [k \in {} |-> 0]]
    /\ apc' = [t \in AwardThreads |-> "idle"]
    /\ aloc' = [t \in AwardThreads |-> NoLocals]
    /\ lastCall' = NoCall
    /\ awarded' = [s \in Systems |-> [u \in Users |->
                       [sum |-> 0, count |-> 0, last |-> NoInt, raised |-> FALSE, spaced |-> TRUE]]]
    /\ GIT_ENABLED' = git_host
    /\ MIGRATION_LOCK' = "free"
    /\ mpc' = "check"
    /\ mloc' = NoMee
    /\ rpc' = "check"
    /\ rloc' = NoRed
    /\ UNCHANGED <<file, now, calls, git_host, ended, completed>>

InitAward ==
    /\ cache = [s \in Systems |-> [loaded |-> FALSE, docs |-> EmptyTables]]
    /\ file = [nonempty |-> FALSE, docs |-> EmptyTables]
    /\ stuck = [s \in Systems |-> FALSE]
    /\ last_activity = [s \in Systems |-> [k \in {} |-> 0]]
    /\ now = 0
    /\ apc = [t \in AwardThreads |-> "idle"]
    /\ aloc = [t \in AwardThreads |-> NoLocals]
    /\ calls = [t \in AwardThreads |-> 0]
    /\ lastCall = NoCall
    /\ awarded = [s \in Systems |-> [u \in Users |->
                      [sum |-> 0, count |-> 0, last |-> NoInt, raised |-> FALSE, spaced |-> TRUE]]]

\* the process has just started: nothing in the repository assigns
\* database.GIT_ENABLED before the migrations read it, so the attribute is
\* whatever the host gave the module: absent ("unset"), True or False
InitMig ==
    /\ git_host \in {"unset", "true", "false"}
    /\ GIT_ENABLED = git_host
    /\ MIGRATION_LOCK = "free"
    /\ mpc = "check"
    /\ mloc = NoMee
    /\ rpc = "check"
    /\ rloc = NoRed
    /\ ended = NoEnd
    /\ completed = [mee6 |-> 0, reddit |-> 0]
    /\ restarts = 0

\* both entry points have returned already (the bots are up and listening)
InitMigDone ==
    /\ git_host = "unset"
    /\ GIT_ENABLED = git_host
    /\ MIGRATION_LOCK = "free"
    /\ mpc = "done"
    /\ mloc = NoMee
    /\ rpc = "done"
    /\ rloc = NoRed
    /\ ended = NoEnd
    /\ completed = [mee6 |-> 0, reddit |-> 0]
    /\ restarts = 0

vars == <<storeVars, awardVars, migVars, auxVars>>

(***************************************************************************)
(* Part 2, continued: the level formula                                    *)
(***************************************************************************)

MaxLevel == 10000

\* Python integers are unbounded; an xp value is held as <<hi, lo>> with
\* xp = hi * Limb + lo, so that level * level * 100 fits
Limb == 10000

Big(x) == <<x \div Limb, x % Limb>>

\* x * 100 for a natural x
Times100(x) == <<x \div (Limb \div 100), (x % (Limb \div 100)) * 100>>

\* floor(xp / d) for d = 100
MutantDivide100(xp) == xp[1] * (Limb \div 10) + xp[2] \div 10

Divide100(xp) == xp[1] * (Limb \div 100) + xp[2] \div 100

\* the largest root whose square fits the integers of the model
SqrtCap == 46340

RECURSIVE SqrtBetween(_, _, _)
SqrtBetween(k, lo, hi) ==
    IF lo >= hi THEN lo
    ELSE LET mid == (lo + hi + 1) \div 2
         IN  IF mid * mid <= k THEN SqrtBetween(k, mid, hi)
             ELSE SqrtBetween(k, lo, mid - 1)

\* math.floor(math.sqrt(y)) for y >= 0: the integer square root of floor(y)
FloorSqrt(k) == SqrtBetween(k, 0, IF k < SqrtCap THEN k ELSE SqrtCap)

\* calculate_level: math.floor(math.sqrt(xp / 100))
Mutant_calculate_level(xp) ==
    LET r == FloorSqrt(Divide100(xp))
    IN  IF r * r = Divide100(xp) /\ xp[2] % 100 = 0 THEN r ELSE r + 1

calculate_level(xp) == FloorSqrt(Divide100(xp))

\* calculate_xp_for_level: level * level * 100
calculate_xp_for_level(n) == Times100(n * n)

InitLevelIdle ==
    /\ level = 0
    /\ xp_for_level = calculate_xp_for_level(0)
    /\ level_of_xp = calculate_level(calculate_xp_for_level(0))

\* the next level is put through both functions
LevelNext ==
    /\ level < MaxLevel
    /\ level' = level + 1
    /\ xp_for_level' = calculate_xp_for_level(level + 1)
    /\ level_of_xp' = calculate_level(calculate_xp_for_level(level + 1))

\* C20: for the level n reached (every n of 0..MaxLevel is), the xp computed
\* for it is n * n * 100 and calculate_level of that xp is n again.
C20_RoundTrip ==
    /\ xp_for_level[2] \in 0..(Limb - 1) /\ xp_for_level[2] % 100 = 0
    /\ xp_for_level[1] * 100 + xp_for_level[2] \div 100 = level * level
    /\ level_of_xp = level

C20_Witness == level = MaxLevel /\ level_of_xp = MaxLevel /\ xp_for_level[1] >= 1000000

(***************************************************************************)
(* Part 2, continued: get_leaderboard and get_user_rank_position           *)
(***************************************************************************)

MaxRows == 2

MaxLimit == 2

MaxBoardAwards == 1

BoardPlatform == "discord"

\* two guilds
BoardCommunities == {GuildId, GuildId + 1}

\* get_user_rank_position, line 362: limit=1000000
AllUsers == 1000000

\* the records a user table can hold: with an xp, or without one
BoardDocs ==
    {NewDoc([user_id |-> u, community_id |-> c, xp |-> x]) :
        u \in Users, c \in BoardCommunities, x \in {0, 100}}
    \cup {NewDoc([user_id |-> u, community_id |-> c]) : u \in Users, c \in BoardCommunities}

\* x.get('xp', 0)
XpOf(doc) == IF Has(doc, "xp") THEN doc.xp ELSE 0

\* lines 231-235: the records of the community, in table order
CommunityUsers(tbl, c) == SelectSeq(tbl, LAMBDA d : d.community_id = c)

\* sorted(..., key=xp, reverse=True) is stable: a record goes behind every
\* record sorted so far whose xp is not lower
MutantInsertSorted(sorted, x) ==
    LET k == Cardinality({i \in 1..Len(sorted) : XpOf(sorted[i]) > XpOf(x)})
    IN  SubSeq(sorted, 1, k) \o <<x>> \o SubSeq(sorted, k + 1, Len(sorted))

InsertSorted(sorted, x) ==
    LET k == Cardinality({i \in 1..Len(sorted) : XpOf(sorted[i]) >= XpOf(x)})
    IN  SubSeq(sorted, 1, k) \o <<x>> \o SubSeq(sorted, k + 1, Len(sorted))

RECURSIVE SortedByXp(_)
SortedByXp(users) ==
    IF users = <<>> THEN <<>>
    ELSE InsertSorted(SortedByXp(SubSeq(users, 1, Len(users) - 1)), users[Len(users)])

\* lines 241-243: end_index
MutantEndIndex(n, limit, offset) == IF offset + limit >= n THEN n ELSE offset + limit + 1

EndIndex(n, limit, offset) == IF offset + limit > n THEN n ELSE offset + limit

\* RankDatabase.get_leaderboard, lines 227-249
GetLeaderboard(tbl, c, limit, offset) ==
    LET sorted_users == SortedByXp(CommunityUsers(tbl, c))
        end_index == EndIndex(Len(sorted_users), limit, offset)
    IN  IF offset >= Len(sorted_users) THEN <<>>
        ELSE SubSeq(sorted_users, offset + 1, end_index)

\* enumerate(leaderboard, start=offset + 1): the rank of the k-th entry
MutantRankAt(offset, k) == k

RankAt(offset, k) == offset + k

\* RankSystem.get_leaderboard, lines 323-335
RankedLeaderboard(tbl, c, limit, offset) ==
    LET leaderboard == GetLeaderboard(tbl, c, limit, offset)
    IN  [k \in 1..Len(leaderboard) |->
            [entry |-> leaderboard[k], rank |-> RankAt(offset, k),
             level |-> calculate_level(Big(XpOf(leaderboard[k])))]]

\* None
NoPosition == 0

\* RankSystem.get_user_rank_position, lines 353-371
GetUserRankPosition(tbl, c, u) ==
    LET leaderboard == GetLeaderboard(tbl, c, AllUsers, 0)
        hits == {i \in 1..Len(leaderboard) : leaderboard[i].user_id = u}
    IN  IF hits = {} THEN NoPosition ELSE CHOOSE i \in hits : \A j \in hits : i <= j

\* award_xp of a user off cooldown, lines 248-281, by one caller: the record
\* is read (and created), given a username when it has none, and written
\* back with the xp gained; `user_data['xp'] += xp_gain` raises for a record
\* without xp, after the username was written
AwardXpTable(tbl, c, u, g) ==
    LET tn == TableName(BoardPlatform)
        t0 == [EmptyTables EXCEPT ![tn] = tbl]
        t1 == GetUserDataTables(t0, BoardPlatform, c, u)
        doc == t1[tn][FindUser(t1[tn], c, u)]
        named == IF Has(doc, "username") THEN doc ELSE [doc EXCEPT !.username = NameOf(u)]
        t2 == IF Has(doc, "username") THEN t1
              ELSE UpdateUserDataTables(t1, BoardPlatform, c, u, Present(named))
        marked == [named EXCEPT !.xp = @ + g,
                                !.message_count = (IF Has(named, "message_count") THEN @ ELSE 0) + 1,
                                !.last_activity = now]
    IN  IF ~Has(doc, "xp") THEN t2[tn]
        ELSE UpdateUserDataTables(t2, BoardPlatform, c, u, Present(marked))[tn]

NoQuery == [called |-> FALSE, community |-> 0, limit |-> 0, offset |-> 0]

NoPages == [state |-> "none", rows |-> <<>>]

NoCallYet == [called |-> FALSE, user |-> 0, community |-> 0, result |-> NoPosition]

\* one call of RankSystem.get_leaderboard
LeaderboardCall(c, limit, offset) ==
    /\ bq' = [called |-> TRUE, community |-> c, limit |-> limit, offset |-> offset]
    /\ page' = GetLeaderboard(board_table, c, limit, offset)
    /\ ranked' = RankedLeaderboard(board_table, c, limit, offset)
    /\ position' = NoCallYet
    /\ UNCHANGED <<board_table, bhist>>

\* a single query with any limit and offset
BoardQuery(c, limit, offset) ==
    /\ LeaderboardCall(c, limit, offset)
    /\ pages' = NoPages

\* a caller starts paging with a fixed limit, at offset 0
PageFirst(c, limit) ==
    /\ limit >= 1
    /\ LeaderboardCall(c, limit, 0)
    /\ pages' = [state |-> IF page' = <<>> THEN "done" ELSE "paging", rows |-> page']

\* ... and asks for the next page until a page comes back empty
PageNext ==
    /\ pages.state = "paging"
    /\ LeaderboardCall(bq.community, bq.limit, bq.offset + bq.limit)
    /\ pages' = [state |-> IF page' = <<>> THEN "done" ELSE "paging",
                 rows |-> pages.rows \o page']

\* one call of get_user_rank_position
RankPositionCall(u, c) ==
    /\ position' = [called |-> TRUE, user |-> u, community |-> c,
                    result |-> GetUserRankPosition(board_table, c, u)]
    /\ bq' = NoQuery
    /\ page' = <<>>
    /\ ranked' = <<>>
    /\ pages' = NoPages
    /\ UNCHANGED <<board_table, bhist>>

\* an award changes the table; what was read before is stale
BoardAward(u, c, g) ==
    /\ bhist.awards < MaxBoardAwards
    /\ board_table' = AwardXpTable(board_table, c, u, g)
    /\ bhist' = [awards |-> bhist.awards + 1,
                 sole |-> IF CommunityUsers(board_table, c) = <<>> THEN <<u, c>> ELSE <<>>]
    /\ bq' = NoQuery
    /\ page' = <<>>
    /\ ranked' = <<>>
    /\ pages' = NoPages
    /\ position' = NoCallYet

InitBoardIdle ==
    /\ board_table = <<>>
    /\ bq = NoQuery
    /\ page = <<>>
    /\ ranked = <<>>
    /\ pages = NoPages
    /\ position = NoCallYet
    /\ bhist = [awards |-> 0, sole |-> <<>>]

InitBoard ==
    /\ board_table \in UNION {[1..n -> BoardDocs] : n \in 0..MaxRows}
    /\ bq = NoQuery
    /\ page = <<>>
    /\ ranked = <<>>
    /\ pages = NoPages
    /\ position = NoCallYet
    /\ bhist = [awards |-> 0, sole |-> <<>>]

\* the doc ids of the community's records
CommunityIds(tbl, c) == {i \in 1..Len(tbl) : tbl[i].community_id = c}

\* the place of record i among the records of its community: behind every
\* record with more xp and every earlier record with the same xp
PlaceOf(tbl, c, i) ==
    1 + Cardinality({j \in CommunityIds(tbl, c) :
            \/ XpOf(tbl[j]) > XpOf(tbl[i])
            \/ XpOf(tbl[j]) = XpOf(tbl[i]) /\ j < i})

\* C17: while a caller pages with a fixed limit, the pages it has put
\* together are the first records of the community's list in xp-descending
\* order, one row per record and place, as far as the last offset reaches;
\* when the empty page has come, they are the whole list.
C17_PagesCoverList ==
    pages.state # "none" =>
        LET ids == CommunityIds(board_table, bq.community)
            n == Cardinality(ids)
            reach == bq.offset + bq.limit
        IN  /\ Len(pages.rows) = (IF reach > n THEN n ELSE reach)
            /\ \A i \in ids :
                  PlaceOf(board_table, bq.community, i) <= Len(pages.rows) =>
                      pages.rows[PlaceOf(board_table, bq.community, i)] = board_table[i]
            /\ pages.state = "done" => Len(pages.rows) = n

\* two pages of one record and then the empty page, with another
\* community's record in the table
C17_Witness ==
    /\ pages.state = "done"
    /\ bq.limit = 1
    /\ Len(pages.rows) = 2
    /\ \E i \in 1..Len(board_table) : board_table[i].community_id # bq.community

\* C18: a call returns the community's records at the places offset + 1 ..
\* offset + limit of its xp-descending list (equal xp in table order): as
\* many rows as there are such places, the k-th row the record at place
\* offset + k; no row when offset is at or past the number of records; and
\* no row of another community.
C18_Leaderboard ==
    bq.called =>
        LET ids == CommunityIds(board_table, bq.community)
            n == Cardinality(ids)
            reach == bq.offset + bq.limit
        IN  /\ Len(page) = (IF bq.offset >= n THEN 0
                            ELSE (IF reach > n THEN n ELSE reach) - bq.offset)
            /\ \A k \in 1..Len(page) :
                  /\ page[k].community_id = bq.community
                  /\ \E i \in ids :
                        /\ PlaceOf(board_table, bq.community, i) = bq.offset + k
                        /\ page[k] = board_table[i]

\* the second record of two with equal xp, asked for alone, while the table
\* also holds a record of the other community
C18_Witness ==
    /\ bq.called /\ bq.offset = 1 /\ bq.limit = 1 /\ Len(page) = 1
    /\ \E i, j \in CommunityIds(board_table, bq.community) :
          i < j /\ XpOf(board_table[i]) = XpOf(board_table[j]) /\ page[1] = board_table[j]
          /\ board_table[i] # board_table[j]
    /\ \E i \in 1..Len(board_table) : board_table[i].community_id # bq.community

\* the lowest place of a record of user u in community c, NoPosition if none
FirstPlace(tbl, c, u) ==
    LET mine == {i \in CommunityIds(tbl, c) : tbl[i].user_id = u}
    IN  IF mine = {} THEN NoPosition
        ELSE CHOOSE q \in {PlaceOf(tbl, c, i) : i \in mine} :
                \A i \in mine : q <= PlaceOf(tbl, c, i)

\* C19: get_user_rank_position returns None exactly for a user without a
\* record in the community, otherwise the place of the user's first record in
\* the full list; 1 right after an award to the user in a community that had
\* no record; and a leaderboard call that returns that record gives it the
\* same number as its rank.
C19_RankPosition ==
    /\ position.called =>
          /\ position.result = FirstPlace(board_table, position.community, position.user)
          /\ (position.result = NoPosition) <=>
                 (\A i \in CommunityIds(board_table, position.community) :
                      board_table[i].user_id # position.user)
          /\ bhist.sole = <<position.user, position.community>> => position.result = 1
    /\ bq.called =>
          \A u \in Users :
              LET p == GetUserRankPosition(board_table, bq.community, u)
              IN  (p # NoPosition /\ p > bq.offset /\ p <= bq.offset + Len(ranked)) =>
                      /\ ranked[p - bq.offset].rank = p
                      /\ ranked[p - bq.offset].entry.user_id = u

\* the position asked for right after the first award in a community, and
\* it is 1
C19_Witness ==
    /\ position.called /\ position.result = 1
    /\ bhist.sole = <<position.user, position.community>>
    /\ Len(board_table) > 1

\* a leaderboard page that starts past the top and holds a ranked user
C19_RankWitness ==
    /\ bq.called /\ bq.offset >= 1 /\ Len(ranked) >= 1
    /\ ranked[1].rank = GetUserRankPosition(board_table, bq.community, ranked[1].entry.user_id)

MaxXpIn == 10000

\* the xp held in two limbs, as a number
ValueOf(big) == big[1] * Limb + big[2]

InitXpIdle ==
    /\ xp_in = 0
    /\ level_out = calculate_level(Big(0))
    /\ level_before = calculate_level(Big(0))
    /\ xp_needed = calculate_xp_for_level(calculate_level(Big(0)))

\* the next xp is put through calculate_level
XpNext ==
    /\ xp_in < MaxXpIn
    /\ xp_in' = xp_in + 1
    /\ level_out' = calculate_level(Big(xp_in + 1))
    /\ level_before' = level_out
    /\ xp_needed' = calculate_xp_for_level(calculate_level(Big(xp_in + 1)))

C28_TestValues ==
    /\ level_out = 0 => ValueOf(xp_needed) = 0
    /\ level_out = 1 => ValueOf(xp_needed) = 100
    /\ level_out = 2 => ValueOf(xp_needed) = 355
    /\ level_out = 5 => ValueOf(xp_needed) = 2345
    /\ xp_in = 0 => level_out = 0
    /\ xp_in = 100 => level_out = 1
    /\ xp_in = 355 => level_out = 2
    /\ xp_in = 1000 => level_out = 4
    /\ xp_in = 10000 => level_out = 13

(***************************************************************************)
(* Part 2, continued: what award_xp returns                                *)
(***************************************************************************)

NoRet == [state |-> "idle", user |-> 0, time |-> 0, new |-> FALSE, prev_xp |-> 0,
          prev_count |-> 0, xp_gain |-> 0, old_level |-> 0, level |-> 0,
          level_up |-> FALSE, user_data |-> NewDoc([xp |-> 0])]

\* lines 271-281: new_level, level_up and the dict returned
MutantAwardResult(r, updated_data) ==
    [r EXCEPT !.state = "dict",
              !.user_data = updated_data,
              !.level = calculate_level(Big(updated_data.xp)),
              !.level_up = calculate_level(Big(updated_data.xp)) >= r.old_level]

AwardResult(r, updated_data) ==
    [r EXCEPT !.state = "dict",
              !.user_data = updated_data,
              !.level = calculate_level(Big(updated_data.xp)),
              !.level_up = calculate_level(Big(updated_data.xp)) > r.old_level]

\* award_xp up to the cooldown check, lines 234-245
AwardXpBegin(t, u) ==
    /\ AwardBegin(t, u)
    /\ ret' = [NoRet EXCEPT !.user = u, !.time = now,
                            !.state = IF apc'[t] = "idle" THEN "none" ELSE "pending"]

\* get_rank_data, lines 247-251: does the record exist
AwardXpGetUser(t, ok) ==
    /\ AwardGetUser(t, ok)
    /\ ret' = IF ok
              THEN [ret EXCEPT !.new = FindUser(View(SysOf(t))[TableName(SysOf(t))],
                                                CommunityOf(SysOf(t)), aloc[t].u) = 0]
              ELSE [ret EXCEPT !.state = "raised"]

AwardXpSetName(t, ok) ==
    /\ AwardSetName(t, ok)
    /\ ret' = IF ok THEN ret ELSE [ret EXCEPT !.state = "raised"]

\* lines 252-259: old_level, xp_gain
AwardXpMark(t, g) ==
    /\ AwardMark(t, g)
    /\ ret' = [ret EXCEPT !.prev_xp = aloc[t].data.xp,
                          !.prev_count = IF Has(aloc[t].data, "message_count")
                                         THEN aloc[t].data.message_count ELSE 0,
                          !.old_level = calculate_level(Big(aloc[t].data.xp)),
                          !.xp_gain = g]

\* lines 264-281: update_rank_data returns the stored document
AwardXpUpdate(t, ok) ==
    /\ AwardUpdate(t, ok)
    /\ LET sys == SysOf(t)
           tbl == UpdateUserDataTables(View(sys), sys, CommunityOf(sys), aloc[t].u,
                                       Present(aloc[t].data))[TableName(sys)]
           updated_data == tbl[FindUser(tbl, CommunityOf(sys), aloc[t].u)]
       IN  ret' = IF ok THEN AwardResult(ret, updated_data)
                  ELSE [ret EXCEPT !.state = "raised"]

InitRetIdle == ret = NoRet

\* C22: when award_xp has returned a dict to the Reddit comment thread, the
\* gain lies in the configured range, the stored record has the xp read plus
\* the gain, one message more and the time of the call, the dict holds that
\* record, level and old_level are the levels of the new and the previous xp,
\* level_up says that level is above old_level, and for a user that had no
\* record the xp is the gain and the message count 1.
C22_AwardStored ==
    ret.state = "dict" =>
        LET tbl == View("reddit").reddit_users
            i == FindUser(tbl, SubredditId, ret.user)
        IN  /\ ret.xp_gain >= XpRange("reddit")[1] /\ ret.xp_gain <= XpRange("reddit")[2]
            /\ i # 0
            /\ tbl[i].xp = ret.prev_xp + ret.xp_gain
            /\ tbl[i].message_count = ret.prev_count + 1
            /\ tbl[i].last_activity = ret.time
            /\ ret.user_data = tbl[i]
            /\ ret.level * ret.level * 100 <= tbl[i].xp
            /\ tbl[i].xp < (ret.level + 1) * (ret.level + 1) * 100
            /\ ret.old_level * ret.old_level * 100 <= ret.prev_xp
            /\ ret.prev_xp < (ret.old_level + 1) * (ret.old_level + 1) * 100
            /\ ret.level_up <=> ret.level > ret.old_level
            /\ ret.new => tbl[i].xp = ret.xp_gain /\ tbl[i].message_count = 1

\* a second award that lifts the user from level 1 to level 2
C22_Witness ==
    /\ ret.state = "dict" /\ ~ret.new
    /\ ret.old_level = 1 /\ ret.level = 2 /\ ret.level_up
    /\ ret.prev_count = 1

\* a second award that leaves the user at level 1
C22_SameLevel == ret.state = "dict" /\ ~ret.new /\ ~ret.level_up /\ ret.level = 1

\* C23: a call of award_xp that the cooldown rejects changes no cache, not
\* the file and not the cooldown map; and as long as no call has raised, the
\* time the map holds for a user between calls is the time of the last call
\* that returned a dict for the user.
C23_RejectedNoEffect ==
    /\ [][(\E t \in AwardThreads : calls'[t] = calls[t] + 1 /\ apc'[t] = "idle") =>
             (cache' = cache /\ file' = file /\ last_activity' = last_activity)]_vars
    /\ [](\A u \in Users :
            LET key == UserKey("reddit", SubredditId, u)
            IN  (apc["comment"] = "idle" /\ ~awarded["reddit"][u].raised
                    /\ key \in DOMAIN last_activity["reddit"]) =>
                  last_activity["reddit"][key] = awarded["reddit"][u].last)

\* a call was rejected, and the map still holds the time of the award
\* before it
C23_Witness ==
    /\ lastCall.result = "none" /\ lastCall.sys = "reddit"
    /\ lastCall.time > lastCall.prev
    /\ last_activity["reddit"][UserKey("reddit", SubredditId, lastCall.user)] = lastCall.prev
    /\ View("reddit").reddit_users # <<>>

\* C29: a key is in the cooldown map only with a time that the stored record
\* of its user carries as last_activity: the award is stored before the key
\* is put on cooldown.
C29_StoredBeforeCooldown ==
    \A u \in Users :
        LET key == UserKey("reddit", SubredditId, u)
            tbl == View("reddit").reddit_users
            i == FindUser(tbl, SubredditId, u)
        IN  key \in DOMAIN last_activity["reddit"] =>
                i # 0 /\ tbl[i].last_activity = last_activity["reddit"][key]

\* C30: no call of award_xp ends by raising: when the write of the record
\* fails the call returns None.
C30_WriteFailureSilent == lastCall.result # "raised"

(***************************************************************************)
(* Part 2, continued: the platform argument                                *)
(***************************************************************************)

MaxAccessorCalls == 3

Platforms == Systems \cup {"invalid"}

Accessors == {"get_community_id", "get_community_users", "get_user_data",
              "update_user_data", "get_leaderboard", "get_migration_status",
              "set_migration_completed"}

\* the methods that begin with "if platform not in ['discord', 'reddit']:
\* raise ValueError"
ValidatesPlatform(op) ==
    op \in {"get_community_users", "get_user_data", "update_user_data", "get_leaderboard"}

\* the community and source the caller passes along
ArgCommunity(platform) == IF platform = "discord" THEN GuildId ELSE SubredditId

\* the tables after the body of the method
AccessorTables(op, platform, tables, u) ==
    IF op = "get_user_data"
    THEN GetUserDataTables(tables, platform, ArgCommunity(platform), u)
    ELSE IF op = "update_user_data"
    THEN UpdateUserDataTables(tables, platform, ArgCommunity(platform), u, [xp |-> 100])
    ELSE IF op = "set_migration_completed"
    THEN SetMigrationCompletedTables(tables, platform, ArgCommunity(platform),
                                     SourceOf(platform), [source_type |-> "mee6", date |-> now])
    ELSE tables

NoAccess == [n |-> 0, op |-> "", platform |-> "", outcome |-> "", changed |-> FALSE]

\* one call of get_community_id or of a method of the Discord bot's
\* RankDatabase, with any platform
AccessorCall(op, platform, u) ==
    LET raises == platform \notin Systems /\ ValidatesPlatform(op)
        opens == op # "get_community_id" /\ ~raises
        before == View("discord")
        after == AccessorTables(op, platform, before, u)
    IN  /\ pcall.n < MaxAccessorCalls
        /\ IF opens THEN WithDb("discord", after, after # before, TRUE)
           ELSE UNCHANGED <<cache, file, stuck>>
        /\ pcall' = [n |-> pcall.n + 1, op |-> op, platform |-> platform,
                     outcome |-> IF raises THEN "raised" ELSE "returned",
                     changed |-> opens /\ after # before]
        /\ UNCHANGED <<last_activity, now, apc, aloc, calls, lastCall, awarded>>

InitPlatIdle == pcall = NoAccess

\* C24: a call with a platform other than 'discord' and 'reddit' raises, and
\* leaves the tables and the cooldown map as they were.
C24_InvalidPlatformRaises ==
    (pcall.n > 0 /\ pcall.platform \notin Systems) =>
        /\ pcall.outcome = "raised"
        /\ ~pcall.changed
        /\ \A sys \in Systems : DOMAIN last_activity[sys] = {}

(***************************************************************************)
(* Part 1, continued: sync() and the TinyDB handle                         *)
(***************************************************************************)

MaxSyncs == 5

NoSync == [syncs |-> 0, flushes |-> 0, closes |-> 0, opens |-> 0, before |-> 0]

\* Database.sync of a Database without git, lines 233-240: the flush, then
\* the empty pass through DATA_REPO_LOCK; self.tinydb is not assigned and
\* neither close() nor TinyDB() is called
SyncBody ==
    /\ slog.syncs < MaxSyncs
    /\ json' = Flush(tinydb, json, modified)
    /\ modified' = 0
    /\ handle' = handle
    /\ slog' = [syncs |-> slog.syncs + 1, flushes |-> 1, closes |-> 0, opens |-> 0,
                before |-> handle]

\* db.sync() called from outside a with-block
SyncCall ==
    /\ SyncBody
    /\ UNCHANGED <<lock, tinydb, pc, snap>>

\* Database.__exit__: sync(), then lock.release()
ExitSync(t) ==
    /\ pc[t] = "wrote"
    /\ SyncBody
    /\ lock' = Free
    /\ pc' = [pc EXCEPT ![t] = "done"]
    /\ UNCHANGED <<tinydb, snap>>

InitHandleIdle == handle = 1 /\ slog = NoSync

\* C27: a sync() flushes once, closes the TinyDB handle once and opens one
\* new handle, so that self.tinydb is another object than before the call.
C27_SyncReopens ==
    slog.syncs > 0 =>
        /\ slog.flushes = 1
        /\ slog.closes = 1
        /\ slog.opens = 1
        /\ handle # slog.before

(***************************************************************************)
(* Part 2, continued: the Mee6 import, its page requests and what its      *)
(* with-blocks replicate                                                   *)
(***************************************************************************)

NoRepl == [during |-> 0, after |-> 0]

NoMeeHist == [requested |-> <<>>, writes |-> 0]

\* Database.sync after the flush, lines 239-268: "if self.use_git and
\* self.repo is not None", then status, add, commit and push when the working
\* tree differs from the last commit; database.GIT_ENABLED is not read. `ran`
\* is FALSE when the flush raised before; inBody tells that the call comes
\* from between the start and the end of a migration procedure.
GitAfter(ran, inBody) ==
    LET commits == ran /\ use_git /\ file'.docs # head
    IN /\ head' = IF commits THEN file'.docs ELSE head
       /\ repl' = IF ~commits THEN repl
                  ELSE IF inBody THEN [repl EXCEPT !.during = @ + 1]
                  ELSE [repl EXCEPT !.after = @ + 1]
       /\ UNCHANGED use_git

ImportMeeCheck ==
    /\ MeeCheck
    /\ GitAfter(TRUE, FALSE)
    /\ UNCHANGED <<stop, mhist>>

ImportMeeAcquire == MeeAcquire /\ UNCHANGED meeVars

ImportMeeStart == MeeStart /\ UNCHANGED meeVars

\* _fetch_mee6_page(session, guild_id, page) gives the players of the page
ImportMeeFetchPage(players) ==
    /\ MeeFetchPage(players)
    /\ mhist' = [mhist EXCEPT !.requested = Append(@, mloc.page)]
    /\ UNCHANGED <<use_git, head, repl, stop>>

\* _fetch_mee6_page gives None: the page has no players ("empty"), the
\* status is not 200 ("status"), or the request raised ("error")
ImportMeeFetchNone(why) ==
    /\ MeeFetchNone
    /\ stop' = why
    /\ mhist' = [mhist EXCEPT !.requested = Append(@, mloc.page)]
    /\ UNCHANGED <<use_git, head, repl>>

ImportMeeFetchMalformed ==
    /\ MeeFetchMalformed
    /\ mhist' = [mhist EXCEPT !.requested = Append(@, mloc.page)]
    /\ UNCHANGED <<use_git, head, repl, stop>>

\* _process_mee6_batch: one table.update or table.insert per user_update of
\* the batch, then __exit__ with its sync()
ImportMeeBatch(ok) ==
    /\ MeeBatch(ok)
    /\ GitAfter(ok, TRUE)
    /\ mhist' = [mhist EXCEPT !.writes =
                    @ + Len(Slice(mloc.batch_updates, mloc.i, BATCH_SIZE))]
    /\ UNCHANGED stop

\* lines 859-861: the flag is restored, then self.db.sync()
ImportMeeFinish ==
    /\ MeeFinish
    /\ GitAfter(TRUE, FALSE)
    /\ UNCHANGED <<stop, mhist>>

ImportMeeRecord(ok) ==
    /\ MeeRecord(ok)
    /\ GitAfter(ok, FALSE)
    /\ UNCHANGED <<stop, mhist>>

InitMeeIdle ==
    /\ use_git = FALSE
    /\ head = EmptyTables
    /\ repl = NoRepl
    /\ stop = ""
    /\ mhist = NoMeeHist

\* RankDatabase() is built with use_git=True; use_git is False under
\* GITHUB_PYTEST; the clone is clean when the process starts
InitMeeImport ==
    /\ use_git \in BOOLEAN
    /\ head = EmptyTables
    /\ repl = NoRepl
    /\ stop = ""
    /\ mhist = NoMeeHist

InOrder(requested) == \A k \in 1..Len(requested) : requested[k] = k - 1

\* the table holds what the user_update carries
WrittenIn(tbl, up) ==
    \E k \in 1..Len(tbl) :
        /\ tbl[k].user_id = up.user_id /\ tbl[k].community_id = GuildId
        /\ tbl[k].xp = up.xp /\ tbl[k].username = up.username

\* C32: the Mee6 import requests the pages 0, 1, 2, ... in this order, each
\* once; while it fetches it writes nothing; after the first page that gives
\* None it requests no page again; and when it is through, every player it
\* collected has been written, each by one update or insert.
C32_PagesThenWrites ==
    /\ [](InOrder(mhist.requested) /\ (mpc = "fetch" => mhist.writes = 0))
    /\ [][/\ mpc = "fetch" => (file' = file /\ View("discord")' = View("discord"))
          /\ mpc # "fetch" => mhist'.requested = mhist.requested
          /\ (mpc = "fetch" /\ mpc' = "fetch") => Len(mhist'.requested) = Len(mhist.requested) + 1
          /\ (mpc = "apply" /\ mpc' = "record") =>
                /\ mhist.writes = Len(mloc.batch_updates)
                /\ mhist.writes = mloc.total_users
                /\ \A k \in 1..Len(mloc.batch_updates) :
                       WrittenIn(View("discord").discord_users, mloc.batch_updates[k])]_vars

\* two pages of players, then a page that gives None, and both players written
C32_Witness ==
    /\ mpc = "record"
    /\ mhist.requested = <<0, 1, 2>>
    /\ mhist.writes = 2
    /\ Len(View("discord").discord_users) = 2

MaxAwardCalls == 2

LockThreads == {"dloop", "main", "comment", "submission"}

\* self.lock of the RankDatabase of the Discord RankSystem, of the
\* RankDatabase of the Reddit RankSystem, and of reddit_bot_database
StoreLocks == {"discord.db.lock", "reddit.db.lock", "reddit_bot.db.lock"}

Locks == StoreLocks \cup {"MIGRATION_LOCK", "DATA_REPO_LOCK"}

\* dirty: the cache holds something to write, so the flush can fail
Op(o, l, d) == [op |-> o, lock |-> l, dirty |-> d]

\* Database.sync: the flush, then "with DATA_REPO_LOCK:"
SyncOps(S, dirty) ==
    <<Op("flush", S, dirty), Op("acquire", "DATA_REPO_LOCK", FALSE),
      Op("release", "DATA_REPO_LOCK", FALSE)>>

\* "with self.db as db:": __enter__, the body, __exit__ (sync, then release)
WithBlock(S, dirty) ==
    <<Op("acquire", S, FALSE)>> \o SyncOps(S, dirty) \o <<Op("release", S, FALSE)>>

\* auto_migrate_mee6 for one guild: get_migration_status, migrate_from_mee6
\* (the lock, one batch, the final self.db.sync(), "finally" the release),
\* set_migration_completed
MeeOps ==
    WithBlock("discord.db.lock", FALSE)
    \o <<Op("acquire", "MIGRATION_LOCK", FALSE)>>
    \o WithBlock("discord.db.lock", TRUE)
    \o SyncOps("discord.db.lock", FALSE)
    \o <<Op("release", "MIGRATION_LOCK", FALSE)>>
    \o WithBlock("discord.db.lock", TRUE)

\* migrate_reddit_ranks: get_migration_status, migrate_from_reddit_database
\* (with MIGRATION_LOCK: the scan inside "with reddit_db", then
\* _update_reddit_rank_database, then the final self.db.sync()),
\* set_migration_completed
RedOps ==
    WithBlock("reddit.db.lock", FALSE)
    \o <<Op("acquire", "MIGRATION_LOCK", FALSE)>>
    \o WithBlock("reddit_bot.db.lock", FALSE)
    \o WithBlock("reddit.db.lock", TRUE)
    \o SyncOps("reddit.db.lock", FALSE)
    \o <<Op("release", "MIGRATION_LOCK", FALSE)>>
    \o WithBlock("reddit.db.lock", TRUE)

\* award_xp: get_rank_data(create_if_not_exists=True), then update_rank_data
AwardOps(S) == WithBlock(S, TRUE) \o WithBlock(S, TRUE)

\* get_leaderboard
QueryOps(S) == WithBlock(S, FALSE)

\* the calls of each thread: the Discord event loop, the main thread that
\* builds the Reddit Bot, and the two threads Bot.start() starts
Calls(t) ==
    IF t = "dloop" THEN <<MeeOps, AwardOps("discord.db.lock")>>
    ELSE IF t = "main" THEN <<RedOps>>
    ELSE IF t = "comment" THEN [k \in 1..MaxAwardCalls |-> AwardOps("reddit.db.lock")]
    ELSE <<QueryOps("reddit.db.lock")>>

Ended(t) == lpos[t].call > Len(Calls(t))

NextOp(t) == Calls(t)[lpos[t].call][lpos[t].at]

\* the comment and submission threads are started after Bot.__init__
CanRun(t) == t \in {"comment", "submission"} => Ended("main")

NextCall(t) == [call |-> lpos[t].call + 1, at |-> 1, failed |-> FALSE]

Advance(t) ==
    IF lpos[t].at < Len(Calls(t)[lpos[t].call])
    THEN [lpos[t] EXCEPT !.at = @ + 1]
    ELSE NextCall(t)

\* threading.Lock.acquire(): blocks while the lock is held, by whomever
LockAcquire(t) ==
    /\ ~Ended(t) /\ CanRun(t)
    /\ NextOp(t).op = "acquire"
    /\ held[NextOp(t).lock] = "free"
    /\ held' = [held EXCEPT ![NextOp(t).lock] = t]
    /\ lpos' = [lpos EXCEPT ![t] = Advance(t)]

\* threading.Lock.release(); after an exception the caller's handler ends
\* the call
LockRelease(t) ==
    /\ ~Ended(t) /\ CanRun(t)
    /\ NextOp(t).op = "release"
    /\ held' = [held EXCEPT ![NextOp(t).lock] = "free"]
    /\ lpos' = [lpos EXCEPT ![t] = IF lpos[t].failed THEN NextCall(t) ELSE Advance(t)]

\* self.tinydb.storage.flush() returns
LockFlush(t) ==
    /\ ~Ended(t) /\ CanRun(t)
    /\ NextOp(t).op = "flush"
    /\ lpos' = [lpos EXCEPT ![t] = Advance(t)]
    /\ UNCHANGED held

\* self.tinydb.storage.flush() raises: sync() and __exit__ propagate it, so
\* self.lock.release() is skipped; "finally"/"with" releases MIGRATION_LOCK
\* when the thread holds it; the caller's "except Exception" ends the call
LockFlushRaises(t) ==
    /\ ~Ended(t) /\ CanRun(t)
    /\ NextOp(t).op = "flush" /\ NextOp(t).dirty
    /\ lpos' = [lpos EXCEPT ![t] =
           IF held["MIGRATION_LOCK"] = t
           THEN [@ EXCEPT !.failed = TRUE,
                          !.at = CHOOSE i \in 1..Len(Calls(t)[lpos[t].call]) :
                                     Calls(t)[lpos[t].call][i]
                                         = Op("release", "MIGRATION_LOCK", FALSE)]
           ELSE NextCall(t)]
    /\ UNCHANGED held

InitLockIdle ==
    /\ held = [l \in Locks |-> "free"]
    /\ lpos = [t \in LockThreads |-> [call |-> Len(Calls(t)) + 1, at |-> 1, failed |-> FALSE]]

InitLocks ==
    /\ held = [l \in Locks |-> "free"]
    /\ lpos = [t \in LockThreads |-> [call |-> 1, at |-> 1, failed |-> FALSE]]

Blocked(t) ==
    /\ ~Ended(t) /\ CanRun(t)
    /\ NextOp(t).op = "acquire"
    /\ held[NextOp(t).lock] # "free"

\* some thread waits for a lock and no thread can take a step
Deadlocked ==
    /\ \E t \in LockThreads : Blocked(t)
    /\ \A t \in LockThreads : Ended(t) \/ Blocked(t) \/ ~CanRun(t)

\* MIGRATION_LOCK, then a store lock, then DATA_REPO_LOCK
LockRank(l) == IF l = "MIGRATION_LOCK" THEN 1 ELSE IF l = "DATA_REPO_LOCK" THEN 3 ELSE 2

C36_NoDeadlock ==
    /\ ~Deadlocked
    /\ \A t \in LockThreads :
           (~Ended(t) /\ NextOp(t).op = "acquire") =>
               \A l \in Locks : held[l] = t => LockRank(l) < LockRank(NextOp(t).lock)

(***************************************************************************)
(* Part 2, continued: what the accessors change                            *)
(***************************************************************************)

MaxQueryCalls == 3

\* two guilds, one subreddit
QueryCommunities(platform) ==
    IF platform = "discord" THEN {GuildId, GuildId + 1} ELSE {SubredditId}

\* the data a caller passes to update_user_data: with and without the key
\* fields, which may name another user and another community
UpdateData(platform) ==
    {[xp |-> 100],
     [message_count |-> 2],
     [xp |-> 200, user_id |-> MaxUser + 1,
      community_id |-> IF platform = "discord" THEN GuildId + 5 ELSE "t5_other"]}

Queries == {"get_leaderboard", "get_user_rank_position", "get_community_users",
            "get_migration_status", "get_rank_data"}

\* RankSystem.get_rank_data(create_if_not_exists=False), lines 165-186: the
\* tables after the call; a record without 'username' is given user.name and
\* written back with update_user_data
GetRankDataTables(tables, platform, c, u) ==
    LET tn == TableName(platform)
        i == FindUser(tables[tn], c, u)
        doc == tables[tn][i]
        user_data == [f \in DOMAIN Present(doc) \cup {"username"} |->
                         IF f = "username" THEN NameOf(u) ELSE doc[f]]
    IN IF i = 0 THEN tables
       ELSE IF Has(doc, "username") THEN tables
       ELSE UpdateUserDataTables(tables, platform, c, u, user_data)

\* the tables after a query: the four queries of RankDatabase call neither
\* insert nor update
QueryTables(op, tables, platform, c, u) ==
    IF op = "get_rank_data" THEN GetRankDataTables(tables, platform, c, u) ELSE tables

NoQueryCall == [n |-> 0, op |-> "", platform |-> "", c |-> 0, u |-> 0,
                data |-> [xp |-> 0], before |-> EmptyTables]

Called(op, platform, c, u, data) ==
    /\ qcall.n < MaxQueryCalls
    /\ qcall' = [n |-> qcall.n + 1, op |-> op, platform |-> platform, c |-> c, u |-> u,
                 data |-> data, before |-> View("discord")]
    /\ UNCHANGED <<last_activity, now, apc, aloc, calls, lastCall, awarded>>

\* RankDatabase.update_user_data(platform, c, u, data)
UpdateCall(platform, c, u, data) ==
    /\ WithDb("discord", UpdateUserDataTables(View("discord"), platform, c, u, data),
              TRUE, TRUE)
    /\ Called("update_user_data", platform, c, u, data)

\* RankDatabase.get_user_data(platform, c, u, create_if_not_exists=True)
CreateCall(platform, c, u) ==
    LET after == GetUserDataTables(View("discord"), platform, c, u)
    IN /\ WithDb("discord", after, after # View("discord"), TRUE)
       /\ Called("get_user_data", platform, c, u, [xp |-> 0])

\* RankDatabase.set_migration_completed for the guild
CompletedCall ==
    /\ WithDb("discord",
              SetMigrationCompletedTables(View("discord"), "discord", GuildId,
                  SourceOf("discord"), [source_type |-> "mee6", date |-> now]),
              TRUE, TRUE)
    /\ Called("set_migration_completed", "discord", GuildId, 0, [xp |-> 0])

\* one of the rank and leaderboard queries
QueryCall(op, platform, c, u) ==
    LET after == QueryTables(op, View("discord"), platform, c, u)
    IN /\ WithDb("discord", after, after # View("discord"), TRUE)
       /\ Called(op, platform, c, u, [xp |-> 0])

InitQueryIdle == qcall = NoQueryCall

\* C37: update_user_data(platform, c, u, data) leaves one record of (c, u) in
\* the platform's table, with user_id u and community_id c whatever data
\* carried, the other fields of data as given and the fields absent from
\* data as they were; every other record and every other table is unchanged.
C37_UpdateFrame ==
    qcall.op = "update_user_data" =>
        LET tn == TableName(qcall.platform)
            old == qcall.before
            new == View("discord")
            j == FindUser(old[tn], qcall.c, qcall.u)
            i == FindUser(new[tn], qcall.c, qcall.u)
            keys == {"user_id", "community_id"}
        IN /\ i # 0
           /\ i = (IF j = 0 THEN Len(old[tn]) + 1 ELSE j)
           /\ Len(new[tn]) = Len(old[tn]) + (IF j = 0 THEN 1 ELSE 0)
           /\ new[tn][i].user_id = qcall.u /\ new[tn][i].community_id = qcall.c
           /\ \A f \in DOMAIN qcall.data \ keys : new[tn][i][f] = qcall.data[f]
           /\ \A f \in Fields \ (DOMAIN qcall.data \cup keys) :
                  new[tn][i][f] = (IF j = 0 THEN AbsentOf(f) ELSE old[tn][j][f])
           /\ \A k \in 1..Len(old[tn]) : k # i => new[tn][k] = old[tn][k]
           /\ \A other \in DOMAIN old : other # tn => new[other] = old[other]

\* the record of user 1 in guild 1 is updated with data that names another
\* user and community, while user 1 has a record in guild 2, there is a
\* migration record, and the updated record keeps the xp it had
C37_Witness ==
    /\ qcall.op = "update_user_data" /\ qcall.platform = "discord"
    /\ qcall.c = GuildId /\ qcall.u = 1
    /\ FindUser(qcall.before.discord_users, GuildId, 1) # 0
    /\ FindUser(qcall.before.discord_users, GuildId + 1, 1) # 0
    /\ FindUser(View("discord").discord_users, GuildId + 1, 1) # 0

\* the same, with data that carries the key fields of another user
C37_ForcedKey ==
    /\ qcall.op = "update_user_data"
    /\ "user_id" \in DOMAIN qcall.data
    /\ FindUser(qcall.before[TableName(qcall.platform)], qcall.c, qcall.u) # 0

\* C38: get_leaderboard, get_user_rank_position, get_community_users,
\* get_migration_status and get_rank_data(create_if_not_exists=False) leave
\* the contents of every table as they were.
C38_QueriesReadOnly ==
    qcall.op \in Queries => View("discord") = qcall.before /\ file.docs = qcall.before

(***************************************************************************)
(* Part 2, continued: the Reddit import over what reddit_bot_database      *)
(* holds                                                                   *)
(***************************************************************************)

MaxStored == 2

\* the submissions and comments tables reddit_bot_database can hold
StoredTables ==
    {st \in [submissions : UNION {[1..n -> RedditItems("submission")] : n \in 0..MaxStored},
             comments : UNION {[1..n -> RedditItems("comment")] : n \in 0..MaxStored}] :
        Len(st.submissions) + Len(st.comments) <= MaxStored}

\* ranks.json when the process starts: new, or with the record an earlier
\* award left for user 1
StartFiles ==
    {[nonempty |-> FALSE, docs |-> EmptyTables],
     [nonempty |-> TRUE,
      docs |-> [EmptyTables EXCEPT !.reddit_users =
                   <<NewDoc([user_id |-> 1, community_id |-> SubredditId, xp |-> 100,
                             message_count |-> 1, last_activity |-> 0,
                             username |-> NameOf(1)])>>]]}

InitRedImport ==
    /\ stored \in StoredTables
    /\ file \in StartFiles
    /\ cache = [s \in Systems |-> [loaded |-> FALSE, docs |-> EmptyTables]]
    /\ stuck = [s \in Systems |-> FALSE]
    /\ last_activity = [s \in Systems |-> [k \in {} |-> 0]]
    /\ now = 0
    /\ apc = [t \in AwardThreads |-> "idle"]
    /\ aloc = [t \in AwardThreads |-> NoLocals]
    /\ calls = [t \in AwardThreads |-> 0]
    /\ lastCall = NoCall
    /\ awarded = [s \in Systems |-> [u \in Users |->
                      [sum |-> 0, count |-> 0, last |-> NoInt, raised |-> FALSE, spaced |-> TRUE]]]

\* the stored items whose author is found
Found(items) ==
    {k \in 1..Len(items) : items[k].author # 0 /\ items[k].lookup = "found"}

\* the stored items of author a that are found
FoundOf(a) ==
    {<<"s", k>> : k \in {x \in Found(stored.submissions) : stored.submissions[x].author = a}}
    \cup {<<"c", k>> : k \in {x \in Found(stored.comments) : stored.comments[x].author = a}}

ImportedAuthors == {a \in Users : FoundOf(a) # {}}

\* C39: after the scan every stored submission and every stored comment has
\* been counted once, as processed or as skipped; the processed ones are
\* those whose author was found, whatever came before them in the table;
\* and only they gave an author an entry, and xp, in user_xp_map.
C39_CountedOnce ==
    rpc = "update" =>
        /\ rloc.total_submissions + rloc.skipped_submissions = Len(stored.submissions)
        /\ rloc.total_comments + rloc.skipped_comments = Len(stored.comments)
        /\ rloc.total_submissions = Cardinality(Found(stored.submissions))
        /\ rloc.total_comments = Cardinality(Found(stored.comments))
        /\ {rloc.user_xp_map[k].id : k \in 1..Len(rloc.user_xp_map)} = ImportedAuthors
        /\ \A k \in 1..Len(rloc.user_xp_map) :
               LET st == rloc.user_xp_map[k]
                   n == Cardinality(FoundOf(st.id))
               IN st.submissions + st.comments = n /\ st.xp >= 150 * n /\ st.xp <= 250 * n

\* a submission whose lookup raises, then a comment whose author is found
C39_Witness ==
    /\ rpc = "update"
    /\ Len(stored.submissions) = 1 /\ stored.submissions[1].lookup = "raises"
    /\ Len(stored.comments) = 1 /\ stored.comments[1].lookup = "found"
    /\ rloc.skipped_submissions = 1 /\ rloc.total_comments = 1

\* C40: right after the Reddit import the record of every imported author
\* has message_count = submission_count + comment_count and an xp between
\* 150 and 250 times message_count, in the store and in ranks.json; and
\* new_users + updated_users = total_users, the number of records written.
C40_ImportedRecords ==
    rpc = "record" =>
        /\ \A a \in ImportedAuthors :
               \A tbl \in {View("reddit").reddit_users, file.docs.reddit_users} :
                   LET i == FindUser(tbl, SubredditId, a)
                   IN /\ i # 0
                      /\ tbl[i].message_count = tbl[i].submission_count + tbl[i].comment_count
                      /\ tbl[i].message_count = Cardinality(FoundOf(a))
                      /\ 150 * tbl[i].message_count <= tbl[i].xp
                      /\ tbl[i].xp <= 250 * tbl[i].message_count
        /\ rloc.stats.new_users + rloc.stats.updated_users = rloc.stats.total_users
        /\ rloc.stats.total_users = Cardinality(ImportedAuthors)

\* user 1, who had a record, is imported with a submission and a comment
C40_Witness ==
    /\ rpc = "record"
    /\ Cardinality(FoundOf(1)) = 2
    /\ rloc.stats.updated_users = 1
    /\ View("reddit").reddit_users[1].message_count = 2
    /\ View("reddit").reddit_users[1].xp >= 300

InitRedIdle == stored = [submissions |-> <<>>, comments |-> <<>>]

InitLateIdle == InitMeeIdle /\ InitRedIdle /\ InitQueryIdle /\ InitLockIdle

InitAux ==
    /\ InitSync /\ InitOpenIdle /\ InitBoardIdle /\ InitLevelIdle /\ InitXpIdle /\ InitRetIdle
    /\ InitPlatIdle /\ InitHandleIdle /\ InitLateIdle

Init == InitStore /\ InitAward /\ InitMig /\ InitAux

InitUp == InitStore /\ InitAward /\ InitMigDone /\ InitAux

(* ----------------------------- properties ------------------------------ *)

UserTables == {"discord_users", "reddit_users"}

\* the images of ranks.json: the cache of each RankDatabase and the file
Images == {cache[sys].docs : sys \in Systems} \cup {file.docs}

SameUser(a, b) == a.user_id = b.user_id /\ a.community_id = b.community_id

C3_Cooldown ==
    /\ lastCall.result = "ok" =>
           lastCall.prev = NoInt \/ lastCall.time - lastCall.prev >= cooldown
    /\ (lastCall.result = "none" /\ ~lastCall.raisedBefore) =>
           lastCall.prev # NoInt /\ lastCall.time - lastCall.prev < cooldown

\* a second call, more than the cooldown after the first, returned a dict
C3_Witness ==
    /\ lastCall.result = "ok"
    /\ lastCall.prev # NoInt
    /\ lastCall.time - lastCall.prev > cooldown
    /\ awarded[lastCall.sys][lastCall.user].count = 2

\* C4: once the award_xp calls of the Reddit threads on one user have all
\* returned, each a dict and each at least the cooldown apart from the
\* others, the stored xp is the sum of the gains returned and message_count
\* the number of those calls.
C4_NoLostAward ==
    \A u \in Users :
        LET h == awarded["reddit"][u]
            tbl == View("reddit").reddit_users
            i == FindUser(tbl, SubredditId, u)
        IN (/\ \A t \in {"comment", "submission"} : apc[t] = "idle" \/ aloc[t].u # u
            /\ h.count > 0 /\ h.spaced /\ ~h.raised /\ ~stuck["reddit"])
           => /\ i # 0
              /\ tbl[i].xp = h.sum
              /\ tbl[i].message_count = h.count

\* C35: of the award_xp calls of two threads for one (platform, community,
\* user), at most one is granted xp within one cooldown window: the calls
\* that returned a dict are at least cooldown seconds apart.
C35_OneGrantPerWindow ==
    \A sys \in Systems : \A u \in Users : awarded[sys][u].spaced

KeysOf(tables) ==
    UNION {{<<tn, tables[tn][i].community_id, tables[tn][i].user_id>> :
               i \in 1..Len(tables[tn])} : tn \in UserTables}
    \cup {<<"migrations", tables.migrations[i].migration_key>> :
             i \in 1..Len(tables.migrations)}

\* C5: a flush never discards a record: whatever record (user record or
\* MigrationRecord) ranks.json holds before a step, it holds after it.
C5_NoDiscard == [][KeysOf(file.docs) \subseteq KeysOf(file'.docs)]_vars

MeeBody == {"start", "fetch", "apply"}

RedBody == {"start", "scan", "update"}

\* C7: _do_mee6_migration and _do_reddit_migration are never executing at
\* the same time.
C7_OneMigration == ~(mpc \in MeeBody /\ rpc \in RedBody)

\* the Reddit migration waits for the lock while the Mee6 body is running
C7_Witness == mpc = "fetch" /\ rpc = "acquire" /\ MIGRATION_LOCK = "mee6"

\* C8: the migration lock is held only while a migration body is executing:
\* once migrate_from_mee6 or migrate_from_reddit_database has returned or
\* raised, the lock is free for the next migration.
C8_LockReleased ==
    /\ MIGRATION_LOCK = "mee6" => mpc \in MeeBody
    /\ MIGRATION_LOCK = "reddit" => rpc \in RedBody

\* the Mee6 migration raised, and the Reddit migration took the lock after it
C8_Witness ==
    /\ ended.kind = "mee6" /\ ended.raised /\ ended.before # "unset"
    /\ mpc = "done"
    /\ MIGRATION_LOCK = "reddit"

XpKept(old, new) ==
    \A tn \in UserTables : \A i \in 1..Len(old[tn]) :
        (i <= Len(new[tn]) /\ SameUser(old[tn][i], new[tn][i]))
            => new[tn][i].xp >= old[tn][i].xp

RecordsOfKey(tables, platform) ==
    {i \in 1..Len(tables.migrations) :
        tables.migrations[i].migration_key
            = MigrationKey(platform, CommunityOf(platform), SourceOf(platform))}

\* the step in which the body of a migration raises: the exception leaves
\* through the release of MIGRATION_LOCK
MeeRaises == mpc \in MeeBody /\ ended' # ended /\ ended'.kind = "mee6" /\ ended'.raised
RedRaises == rpc \in RedBody /\ ended' # ended /\ ended'.kind = "reddit" /\ ended'.raised

\* C25: a migration run that fails inserts no MigrationRecord for its key:
\* the entry point ends there, neither the store's tables nor ranks.json
\* get a record of the key, none appears for the rest of the process run,
\* and the status check of the next startup finds none and runs the
\* migration again.
C25_FailedRetried ==
    [][/\ MeeRaises => /\ mpc' = "done"
                       /\ RecordsOfKey(cache'["discord"].docs, "discord") = {}
                       /\ RecordsOfKey(file'.docs, "discord") = {}
       /\ RedRaises => /\ rpc' = "done"
                       /\ RecordsOfKey(cache'["reddit"].docs, "reddit") = {}
                       /\ RecordsOfKey(file'.docs, "reddit") = {}
       /\ (mpc = "done" /\ mpc' = "done" /\ RecordsOfKey(file.docs, "discord") = {})
              => RecordsOfKey(file'.docs, "discord") = {}
       /\ (rpc = "done" /\ rpc' = "done" /\ RecordsOfKey(file.docs, "reddit") = {})
              => RecordsOfKey(file'.docs, "reddit") = {}
       /\ (mpc = "check" /\ mpc' # "check" /\ RecordsOfKey(file.docs, "discord") = {})
              => mpc' = "acquire"
       /\ (rpc = "check" /\ rpc' # "check" /\ RecordsOfKey(file.docs, "reddit") = {})
              => rpc' = "acquire"]_vars

\* the Mee6 import raised in the first run of the process, and the second
\* run has passed the status check and is about to import again
C25_Witness ==
    /\ restarts = 1
    /\ mpc = "acquire"
    /\ ended.kind = "mee6" /\ ended.raised
    /\ completed.mee6 = 0
    /\ RecordsOfKey(file.docs, "discord") = {}

\* no two records of the migrations table carry the same migration_key
UniqueMigrationKeys(tables) ==
    \A i, j \in 1..Len(tables.migrations) :
        tables.migrations[i].migration_key = tables.migrations[j].migration_key => i = j

\* every record of the old migrations table is in the new one, as it was
MigrationsKept(old, new) ==
    \A i \in 1..Len(old.migrations) :
        \E j \in 1..Len(new.migrations) : new.migrations[j] = old.migrations[i]

NextStore ==
    \/ \E t \in Workers : Enter(t) /\ UNCHANGED <<awardVars, migVars, auxVars>>
    \/ \E t \in Workers : InsertRead(t) /\ UNCHANGED <<awardVars, migVars, auxVars>>
    \/ \E t \in Workers : InsertWrite(t) /\ UNCHANGED <<awardVars, migVars, auxVars>>
    \/ \E t \in Workers : Exit(t) /\ UNCHANGED <<awardVars, migVars, auxVars>>
    \/ \E t \in Workers : ExitFlushRaises(t) /\ UNCHANGED <<awardVars, migVars, auxVars>>

SpecStore == InitUp /\ [][NextStore]_vars

\* award_xp called by the two Reddit threads
NextAward ==
    \/ \E t \in {"comment", "submission"}, u \in Users :
           AwardBegin(t, u) /\ UNCHANGED <<storeVars, migVars, auxVars>>
    \/ \E t \in {"comment", "submission"}, ok \in BOOLEAN :
           AwardGetUser(t, ok) /\ UNCHANGED <<storeVars, migVars, auxVars>>
    \/ \E t \in {"comment", "submission"}, ok \in BOOLEAN :
           AwardSetName(t, ok) /\ UNCHANGED <<storeVars, migVars, auxVars>>
    \/ \E t \in {"comment", "submission"}, g \in RandInt(150, 250) :
           AwardMark(t, g) /\ UNCHANGED <<storeVars, migVars, auxVars>>
    \/ \E t \in {"comment", "submission"}, ok \in BOOLEAN :
           AwardUpdate(t, ok) /\ UNCHANGED <<storeVars, migVars, auxVars>>
    \/ Tick /\ UNCHANGED <<storeVars, migVars, auxVars>>

SpecAward == InitUp /\ [][NextAward]_vars

\* award_xp called again and again by one thread
NextAwardSeq ==
    \/ \E u \in Users : AwardBegin("comment", u) /\ UNCHANGED <<storeVars, migVars, auxVars>>
    \/ \E ok \in BOOLEAN : AwardGetUser("comment", ok) /\ UNCHANGED <<storeVars, migVars, auxVars>>
    \/ \E ok \in BOOLEAN : AwardSetName("comment", ok) /\ UNCHANGED <<storeVars, migVars, auxVars>>
    \/ \E g \in RandInt(150, 250) : AwardMark("comment", g) /\ UNCHANGED <<storeVars, migVars, auxVars>>
    \/ \E ok \in BOOLEAN : AwardUpdate("comment", ok) /\ UNCHANGED <<storeVars, migVars, auxVars>>
    \/ Tick /\ UNCHANGED <<storeVars, migVars, auxVars>>

SpecAwardSeq == InitUp /\ [][NextAwardSeq]_vars

\* the pages the Mee6 API can serve
Pages == UNION {[1..n -> Players] : n \in 1..MaxPlayers}

\* the Discord event loop: auto_migrate_mee6 and the awards of xp_award_task
NextMee ==
    \/ MeeCheck /\ UNCHANGED <<storeVars, auxVars>>
    \/ MeeAcquire /\ UNCHANGED <<storeVars, auxVars>>
    \/ MeeStart /\ UNCHANGED <<storeVars, auxVars>>
    \/ \E players \in Pages : MeeFetchPage(players) /\ UNCHANGED <<storeVars, auxVars>>
    \/ MeeFetchNone /\ UNCHANGED <<storeVars, auxVars>>
    \/ MeeFetchMalformed /\ UNCHANGED <<storeVars, auxVars>>
    \/ \E ok \in BOOLEAN : MeeBatch(ok) /\ UNCHANGED <<storeVars, auxVars>>
    \/ MeeFinish /\ UNCHANGED <<storeVars, auxVars>>
    \/ \E ok \in BOOLEAN : MeeRecord(ok) /\ UNCHANGED <<storeVars, auxVars>>
    \/ \E u \in Users : AwardBegin("dloop", u) /\ UNCHANGED <<storeVars, migVars, auxVars>>
    \/ \E ok \in BOOLEAN : AwardGetUser("dloop", ok) /\ UNCHANGED <<storeVars, migVars, auxVars>>
    \/ \E ok \in BOOLEAN : AwardSetName("dloop", ok) /\ UNCHANGED <<storeVars, migVars, auxVars>>
    \/ \E g \in RandInt(15, 25) : AwardMark("dloop", g) /\ UNCHANGED <<storeVars, migVars, auxVars>>
    \/ \E ok \in BOOLEAN : AwardUpdate("dloop", ok) /\ UNCHANGED <<storeVars, migVars, auxVars>>
    \/ Tick /\ UNCHANGED <<storeVars, migVars, auxVars>>

SpecMee == Init /\ [][NextMee]_vars

\* the two migrations of one process run: auto_migrate_mee6 on the Discord
\* event loop and migrate_reddit_ranks in the main thread
NextMig ==
    \/ MeeCheck /\ UNCHANGED <<storeVars, auxVars>>
    \/ MeeAcquire /\ UNCHANGED <<storeVars, auxVars>>
    \/ MeeStart /\ UNCHANGED <<storeVars, auxVars>>
    \/ \E players \in Pages : MeeFetchPage(players) /\ UNCHANGED <<storeVars, auxVars>>
    \/ MeeFetchNone /\ UNCHANGED <<storeVars, auxVars>>
    \/ MeeFetchMalformed /\ UNCHANGED <<storeVars, auxVars>>
    \/ \E ok \in BOOLEAN : MeeBatch(ok) /\ UNCHANGED <<storeVars, auxVars>>
    \/ MeeFinish /\ UNCHANGED <<storeVars, auxVars>>
    \/ \E ok \in BOOLEAN : MeeRecord(ok) /\ UNCHANGED <<storeVars, auxVars>>
    \/ RedCheck /\ UNCHANGED <<storeVars, auxVars>>
    \/ RedAcquire /\ UNCHANGED <<storeVars, auxVars>>
    \/ RedStart /\ UNCHANGED <<storeVars, auxVars>>
    \/ \E subs \in ItemLists("submission"), coms \in ItemLists("comment") :
           /\ Len(subs) + Len(coms) <= MaxItems
           /\ RedScan(subs, coms) /\ UNCHANGED <<storeVars, auxVars>>
    \/ \E ok \in BOOLEAN : RedUpdate(ok) /\ UNCHANGED <<storeVars, auxVars>>
    \/ \E ok \in BOOLEAN : RedRecord(ok) /\ UNCHANGED <<storeVars, auxVars>>

SpecMig == Init /\ [][NextMig]_vars

\* the same, over several runs of the process
NextRerun ==
    \/ NextMig
    \/ Restart /\ UNCHANGED <<storeVars, auxVars>>

SpecRerun == Init /\ [][NextRerun]_vars

\* both bots up: xp_award_task on the Discord event loop and the comment
\* thread of the Reddit Bot, each with its own RankSystem
NextBots ==
    \/ \E t \in {"dloop", "comment"}, u \in Users :
           AwardBegin(t, u) /\ UNCHANGED <<storeVars, migVars, auxVars>>
    \/ \E t \in {"dloop", "comment"}, ok \in BOOLEAN :
           AwardGetUser(t, ok) /\ UNCHANGED <<storeVars, migVars, auxVars>>
    \/ \E t \in {"dloop", "comment"}, ok \in BOOLEAN :
           AwardSetName(t, ok) /\ UNCHANGED <<storeVars, migVars, auxVars>>
    \/ \E t \in {"dloop", "comment"} :
           \E g \in RandInt(XpRange(SysOf(t))[1], XpRange(SysOf(t))[2]) :
               AwardMark(t, g) /\ UNCHANGED <<storeVars, migVars, auxVars>>
    \/ \E t \in {"dloop", "comment"}, ok \in BOOLEAN :
           AwardUpdate(t, ok) /\ UNCHANGED <<storeVars, migVars, auxVars>>

SpecBots == InitUp /\ [][NextBots]_vars

\* worker threads on one Database that replicates to the git data repository
NextSync ==
    \/ \E t \in Workers : Enter(t) /\ UNCHANGED <<awardVars, migVars, auxVars>>
    \/ \E t \in Workers : InsertRead(t) /\ UNCHANGED <<awardVars, migVars, auxVars>>
    \/ \E t \in Workers : InsertWrite(t) /\ UNCHANGED <<awardVars, migVars, auxVars>>
    \/ \E t \in Workers : SyncFlush(t) /\ UNCHANGED <<awardVars, migVars, openVars, boardVars, levelVars, xpVars, retVars, platVars, handleVars, lateVars>>
    \/ \E t \in Workers : SyncLock(t) /\ UNCHANGED <<awardVars, migVars, openVars, boardVars, levelVars, xpVars, retVars, platVars, handleVars, lateVars>>
    \/ \E t \in Workers, ok \in BOOLEAN : GitStatus(t, ok) /\ UNCHANGED <<awardVars, migVars, openVars, boardVars, levelVars, xpVars, retVars, platVars, handleVars, lateVars>>
    \/ \E t \in Workers, ok \in BOOLEAN : GitAdd(t, ok) /\ UNCHANGED <<awardVars, migVars, openVars, boardVars, levelVars, xpVars, retVars, platVars, handleVars, lateVars>>
    \/ \E t \in Workers, ok \in BOOLEAN :
           GitStatusAgain(t, ok) /\ UNCHANGED <<awardVars, migVars, openVars, boardVars, levelVars, xpVars, retVars, platVars, handleVars, lateVars>>
    \/ \E t \in Workers, ok \in BOOLEAN : GitCommit(t, ok) /\ UNCHANGED <<awardVars, migVars, openVars, boardVars, levelVars, xpVars, retVars, platVars, handleVars, lateVars>>
    \/ \E t \in Workers, ok \in BOOLEAN : GitPush(t, ok) /\ UNCHANGED <<awardVars, migVars, openVars, boardVars, levelVars, xpVars, retVars, platVars, handleVars, lateVars>>
    \/ \E t \in Workers : SyncRelease(t) /\ UNCHANGED <<awardVars, migVars, openVars, boardVars, levelVars, xpVars, retVars, platVars, handleVars, lateVars>>

SpecSync == InitUp /\ [][NextSync]_vars

\* one data directory, opened by one process after another
NextOpen ==
    \/ OpenCheck /\ UNCHANGED <<storeVars, awardVars, migVars, syncVars, boardVars, levelVars, xpVars, retVars, platVars, handleVars, lateVars>>
    \/ MigrateKey /\ UNCHANGED <<storeVars, awardVars, migVars, syncVars, boardVars, levelVars, xpVars, retVars, platVars, handleVars, lateVars>>
    \/ MigrateFlush /\ UNCHANGED <<storeVars, awardVars, migVars, syncVars, boardVars, levelVars, xpVars, retVars, platVars, handleVars, lateVars>>
    \/ OpenCreate /\ UNCHANGED <<storeVars, awardVars, migVars, syncVars, boardVars, levelVars, xpVars, retVars, platVars, handleVars, lateVars>>
    \/ Close /\ UNCHANGED <<storeVars, awardVars, migVars, syncVars, boardVars, levelVars, xpVars, retVars, platVars, handleVars, lateVars>>

InitLegacy ==
    InitStore /\ InitAward /\ InitMigDone /\ InitSync /\ InitOpen /\ InitBoardIdle /\ InitLevelIdle /\ InitXpIdle
    /\ InitRetIdle /\ InitPlatIdle /\ InitHandleIdle /\ InitLateIdle

SpecOpen == InitLegacy /\ [][NextOpen]_vars

\* callers of the leaderboard on one user table
NextBoard ==
    \/ \E c \in BoardCommunities, l \in 0..MaxLimit, o \in 0..(MaxRows + 1) :
           BoardQuery(c, l, o) /\ UNCHANGED <<storeVars, awardVars, migVars, syncVars, openVars, levelVars, xpVars, retVars, platVars, handleVars, lateVars>>
    \/ \E c \in BoardCommunities, l \in 1..MaxLimit :
           PageFirst(c, l) /\ UNCHANGED <<storeVars, awardVars, migVars, syncVars, openVars, levelVars, xpVars, retVars, platVars, handleVars, lateVars>>
    \/ PageNext /\ UNCHANGED <<storeVars, awardVars, migVars, syncVars, openVars, levelVars, xpVars, retVars, platVars, handleVars, lateVars>>
    \/ \E u \in Users, c \in BoardCommunities :
           RankPositionCall(u, c) /\ UNCHANGED <<storeVars, awardVars, migVars, syncVars, openVars, levelVars, xpVars, retVars, platVars, handleVars, lateVars>>
    \/ \E u \in Users, c \in BoardCommunities, g \in RandInt(15, 25) :
           BoardAward(u, c, g) /\ UNCHANGED <<storeVars, awardVars, migVars, syncVars, openVars, levelVars, xpVars, retVars, platVars, handleVars, lateVars>>

InitRanks ==
    InitStore /\ InitAward /\ InitMigDone /\ InitSync /\ InitOpenIdle /\ InitBoard /\ InitLevelIdle /\ InitXpIdle
    /\ InitRetIdle /\ InitPlatIdle /\ InitHandleIdle /\ InitLateIdle

SpecBoard == InitRanks /\ [][NextBoard]_vars

\* every level of 0..MaxLevel, one after the other
NextLevel ==
    LevelNext /\ UNCHANGED <<storeVars, awardVars, migVars, syncVars, openVars, boardVars, xpVars, retVars, platVars, handleVars, lateVars>>

SpecLevel == InitUp /\ [][NextLevel]_vars

\* every xp of 0..MaxXpIn, one after the other
NextXp ==
    XpNext /\ UNCHANGED <<storeVars, awardVars, migVars, syncVars, openVars, boardVars, levelVars, retVars, platVars, handleVars, lateVars>>

SpecXp == InitUp /\ [][NextXp]_vars

\* award_xp called by the Reddit comment thread, with what it returns
NextAwardRet ==
    \/ \E u \in Users : AwardXpBegin("comment", u)
           /\ UNCHANGED <<storeVars, migVars, syncVars, openVars, boardVars, levelVars, xpVars, platVars, handleVars, lateVars>>
    \/ \E ok \in BOOLEAN : AwardXpGetUser("comment", ok)
           /\ UNCHANGED <<storeVars, migVars, syncVars, openVars, boardVars, levelVars, xpVars, platVars, handleVars, lateVars>>
    \/ \E ok \in BOOLEAN : AwardXpSetName("comment", ok)
           /\ UNCHANGED <<storeVars, migVars, syncVars, openVars, boardVars, levelVars, xpVars, platVars, handleVars, lateVars>>
    \/ \E g \in RandInt(150, 250) : AwardXpMark("comment", g)
           /\ UNCHANGED <<storeVars, migVars, syncVars, openVars, boardVars, levelVars, xpVars, platVars, handleVars, lateVars>>
    \/ \E ok \in BOOLEAN : AwardXpUpdate("comment", ok)
           /\ UNCHANGED <<storeVars, migVars, syncVars, openVars, boardVars, levelVars, xpVars, platVars, handleVars, lateVars>>
    \/ Tick /\ UNCHANGED <<storeVars, migVars, auxVars>>

SpecAwardRet == InitUp /\ [][NextAwardRet]_vars

\* calls with any platform on the Discord bot's RankSystem and RankDatabase
NextPlatform ==
    \E op \in Accessors, platform \in Platforms, u \in Users :
        AccessorCall(op, platform, u)
            /\ UNCHANGED <<storeVars, migVars, syncVars, openVars, boardVars, levelVars,
                           xpVars, retVars, handleVars, lateVars>>

SpecPlatform == InitUp /\ [][NextPlatform]_vars

\* worker threads on one Database without git, and calls of sync() from
\* outside the with-blocks
NextHandle ==
    \/ \E t \in Workers : Enter(t)
           /\ UNCHANGED <<handleVars, awardVars, migVars, syncVars, openVars, boardVars,
                          levelVars, xpVars, retVars, platVars, lateVars>>
    \/ \E t \in Workers : InsertRead(t)
           /\ UNCHANGED <<handleVars, awardVars, migVars, syncVars, openVars, boardVars,
                          levelVars, xpVars, retVars, platVars, lateVars>>
    \/ \E t \in Workers : InsertWrite(t)
           /\ UNCHANGED <<handleVars, awardVars, migVars, syncVars, openVars, boardVars,
                          levelVars, xpVars, retVars, platVars, lateVars>>
    \/ \E t \in Workers : ExitSync(t)
           /\ UNCHANGED <<awardVars, migVars, syncVars, openVars, boardVars,
                          levelVars, xpVars, retVars, platVars, lateVars>>
    \/ SyncCall
           /\ UNCHANGED <<awardVars, migVars, syncVars, openVars, boardVars,
                          levelVars, xpVars, retVars, platVars, lateVars>>

SpecHandle == InitUp /\ [][NextHandle]_vars

\* auto_migrate_mee6 alone, on a RankDatabase that may replicate to git
NextMeeImport ==
    \/ ImportMeeCheck
           /\ UNCHANGED <<storeVars, syncVars, openVars, boardVars, levelVars, xpVars,
                          retVars, platVars, handleVars, redVars, queryVars, lockVars>>
    \/ ImportMeeAcquire
           /\ UNCHANGED <<storeVars, syncVars, openVars, boardVars, levelVars, xpVars,
                          retVars, platVars, handleVars, redVars, queryVars, lockVars>>
    \/ ImportMeeStart
           /\ UNCHANGED <<storeVars, syncVars, openVars, boardVars, levelVars, xpVars,
                          retVars, platVars, handleVars, redVars, queryVars, lockVars>>
    \/ \E players \in Pages : ImportMeeFetchPage(players)
           /\ UNCHANGED <<storeVars, syncVars, openVars, boardVars, levelVars, xpVars,
                          retVars, platVars, handleVars, redVars, queryVars, lockVars>>
    \/ \E why \in {"empty", "status", "error"} : ImportMeeFetchNone(why)
           /\ UNCHANGED <<storeVars, syncVars, openVars, boardVars, levelVars, xpVars,
                          retVars, platVars, handleVars, redVars, queryVars, lockVars>>
    \/ ImportMeeFetchMalformed
           /\ UNCHANGED <<storeVars, syncVars, openVars, boardVars, levelVars, xpVars,
                          retVars, platVars, handleVars, redVars, queryVars, lockVars>>
    \/ \E ok \in BOOLEAN : ImportMeeBatch(ok)
           /\ UNCHANGED <<storeVars, syncVars, openVars, boardVars, levelVars, xpVars,
                          retVars, platVars, handleVars, redVars, queryVars, lockVars>>
    \/ ImportMeeFinish
           /\ UNCHANGED <<storeVars, syncVars, openVars, boardVars, levelVars, xpVars,
                          retVars, platVars, handleVars, redVars, queryVars, lockVars>>
    \/ \E ok \in BOOLEAN : ImportMeeRecord(ok)
           /\ UNCHANGED <<storeVars, syncVars, openVars, boardVars, levelVars, xpVars,
                          retVars, platVars, handleVars, redVars, queryVars, lockVars>>

InitImportMee ==
    /\ InitStore /\ InitAward /\ InitMig
    /\ InitSync /\ InitOpenIdle /\ InitBoardIdle /\ InitLevelIdle /\ InitXpIdle
    /\ InitRetIdle /\ InitPlatIdle /\ InitHandleIdle
    /\ InitMeeImport /\ InitRedIdle /\ InitQueryIdle /\ InitLockIdle

SpecMeeImport == InitImportMee /\ [][NextMeeImport]_vars

\* the threads of the process, reduced to their lock operations
NextLocks ==
    \/ \E t \in LockThreads : LockAcquire(t)
           /\ UNCHANGED <<storeVars, awardVars, migVars, syncVars, openVars, boardVars,
                          levelVars, xpVars, retVars, platVars, handleVars, meeVars,
                          redVars, queryVars>>
    \/ \E t \in LockThreads : LockRelease(t)
           /\ UNCHANGED <<storeVars, awardVars, migVars, syncVars, openVars, boardVars,
                          levelVars, xpVars, retVars, platVars, handleVars, meeVars,
                          redVars, queryVars>>
    \/ \E t \in LockThreads : LockFlush(t)
           /\ UNCHANGED <<storeVars, awardVars, migVars, syncVars, openVars, boardVars,
                          levelVars, xpVars, retVars, platVars, handleVars, meeVars,
                          redVars, queryVars>>
    \/ \E t \in LockThreads : LockFlushRaises(t)
           /\ UNCHANGED <<storeVars, awardVars, migVars, syncVars, openVars, boardVars,
                          levelVars, xpVars, retVars, platVars, handleVars, meeVars,
                          redVars, queryVars>>

InitLockRun ==
    /\ InitStore /\ InitAward /\ InitMig
    /\ InitSync /\ InitOpenIdle /\ InitBoardIdle /\ InitLevelIdle /\ InitXpIdle
    /\ InitRetIdle /\ InitPlatIdle /\ InitHandleIdle
    /\ InitMeeIdle /\ InitRedIdle /\ InitQueryIdle /\ InitLocks

SpecLocks == InitLockRun /\ [][NextLocks]_vars

\* callers of the accessors of one RankDatabase
NextQuery ==
    \/ \E platform \in Systems : \E c \in QueryCommunities(platform), u \in Users :
           \E data \in UpdateData(platform) : UpdateCall(platform, c, u, data)
               /\ UNCHANGED <<storeVars, migVars, syncVars, openVars, boardVars, levelVars,
                              xpVars, retVars, platVars, handleVars, meeVars, redVars,
                              lockVars>>
    \/ \E platform \in Systems : \E c \in QueryCommunities(platform), u \in Users :
           CreateCall(platform, c, u)
               /\ UNCHANGED <<storeVars, migVars, syncVars, openVars, boardVars, levelVars,
                              xpVars, retVars, platVars, handleVars, meeVars, redVars,
                              lockVars>>
    \/ CompletedCall
           /\ UNCHANGED <<storeVars, migVars, syncVars, openVars, boardVars, levelVars,
                          xpVars, retVars, platVars, handleVars, meeVars, redVars,
                          lockVars>>
    \/ \E op \in Queries, platform \in Systems :
           \E c \in QueryCommunities(platform), u \in Users : QueryCall(op, platform, c, u)
               /\ UNCHANGED <<storeVars, migVars, syncVars, openVars, boardVars, levelVars,
                              xpVars, retVars, platVars, handleVars, meeVars, redVars,
                              lockVars>>

SpecQuery == InitUp /\ [][NextQuery]_vars

\* migrate_reddit_ranks alone, over the tables of reddit_bot_database
NextRedImport ==
    \/ RedCheck
           /\ UNCHANGED <<storeVars, syncVars, openVars, boardVars, levelVars, xpVars,
                          retVars, platVars, handleVars, meeVars, redVars, queryVars,
                          lockVars>>
    \/ RedAcquire
           /\ UNCHANGED <<storeVars, syncVars, openVars, boardVars, levelVars, xpVars,
                          retVars, platVars, handleVars, meeVars, redVars, queryVars,
                          lockVars>>
    \/ RedStart
           /\ UNCHANGED <<storeVars, syncVars, openVars, boardVars, levelVars, xpVars,
                          retVars, platVars, handleVars, meeVars, redVars, queryVars,
                          lockVars>>
    \/ RedScan(stored.submissions, stored.comments)
           /\ UNCHANGED <<storeVars, syncVars, openVars, boardVars, levelVars, xpVars,
                          retVars, platVars, handleVars, meeVars, redVars, queryVars,
                          lockVars>>
    \/ \E ok \in BOOLEAN : RedUpdate(ok)
           /\ UNCHANGED <<storeVars, syncVars, openVars, boardVars, levelVars, xpVars,
                          retVars, platVars, handleVars, meeVars, redVars, queryVars,
                          lockVars>>
    \/ \E ok \in BOOLEAN : RedRecord(ok)
           /\ UNCHANGED <<storeVars, syncVars, openVars, boardVars, levelVars, xpVars,
                          retVars, platVars, handleVars, meeVars, redVars, queryVars,
                          lockVars>>

InitRedRun ==
    /\ InitStore /\ InitRedImport /\ InitMig
    /\ InitSync /\ InitOpenIdle /\ InitBoardIdle /\ InitLevelIdle /\ InitXpIdle
    /\ InitRetIdle /\ InitPlatIdle /\ InitHandleIdle
    /\ InitMeeIdle /\ InitQueryIdle /\ InitLockIdle

SpecRedImport == InitRedRun /\ [][NextRedImport]_vars

====
